---- MODULE Spec2Model ----
(***************************************************************************)
(* Order-sheet transformation pipeline of projects/order-sheet-entry:      *)
(* master catalog build and alignment (master_data.py), size-column        *)
(* detection, row breakout and master enrichment (transform.py), ship-date *)
(* cleaning (csv_utils.py), customer/contact matching                      *)
(* (contact_matching.py) and the main loop (order-transformation.py); and  *)
(* the tag and badge operations of connections/shopify.  DataFrames are    *)
(* sequences of rows; a row is a function from column names to cell        *)
(* values, with the pandas index label kept in the field "idx".            *)
(***************************************************************************)
EXTENDS Integers, Sequences, FiniteSets, TLC

VARIABLES
    master_df,      \* align_master_with_dupecheck: the argument master_df
    aligned,        \* align_master_with_dupecheck: the returned DataFrame
    m_pc,           \* "start" | "done" | "RuntimeError"
    catalog,        \* main: master_df after alignment (lines 112-113)
    size_cols,      \* main: size_cols, ordered <<column, size>> pairs
    order_row,      \* main: the order-sheet row being processed
    breakout_df,    \* main: breakout_df (line 163)
    final_hits,     \* enrich_with_master: final_hits (line 196)
    enriched_items, \* main: enriched_items (line 166)
    o_pc,           \* "start" | "broken" | "done" | "KeyError"
    contacts_df,    \* match_all_customers: contacts_df
    customer_name,  \* match_all_customers: the name being matched
    match_result,   \* match_customer: the returned (matched_id, match_info)
    c_pc,           \* "start" | "done"
    now,            \* clean_ship_date: datetime.now(), [year, month, day, tod]
    pads_year,      \* whether the platform's strftime pads %Y to four digits
    raw_date,       \* clean_ship_date: the argument raw_date
    ship_result,    \* clean_ship_date(raw_date): [date, defaulted]
    again_result,   \* clean_ship_date applied to the date of ship_result
    s_pc,           \* "start" | "cleaned" | "done"
    order_file,     \* main: the order sheet on disk, [decodable, columns, rows]
    aux_files,      \* main: whether the master and contacts files can be decoded
    salesperson,    \* main: the salesperson inferred from the file name
    order_df,       \* main: the order sheet after preprocess_df
    loop,           \* main: the local variables of the row loop
    output_rows,    \* main: the rows assembled so far
    output_dir,     \* main: the output file and the sidecar note on disk
    p_pc,           \* main: the step reached, or "failed"
    sheet_columns,  \* get_size_columns: order_df.columns
    sheet_master,   \* get_size_columns: the rows of master_df
    first_call,     \* get_size_columns(order_df, master_df)
    second_call,    \* the same call, made again in another interpreter run
    g_pc,           \* "start" | "called" | "done"
    master_sku_file,  \* build_master_with_ext_id: the rows of master-sku.csv
    variant_file,   \* build_master_with_ext_id: the rows of product-variant-export.csv
    built,          \* build_master_with_ext_id: the returned master_df
    b_pc,           \* "start" | "done"
    rows_in,        \* match_all_customers: the argument output_rows
    contacts_file,  \* match_all_customers: the rows of the contacts file
    all_matches,    \* match_all_customers: the returned dict matches
    stats,          \* match_all_customers: the counts per tier that are logged
    warning,        \* match_all_customers: the "Unmatched customers" warning
    a_pc,           \* "start" | "done"
    path_name,      \* infer_salesperson_from_filename: path.name
    inferred,       \* infer_salesperson_from_filename: the returned (rep, prefix)
    f_pc,           \* "start" | "done"
    env_set,        \* ShopifyClient: whether SHOP_URL and SHOP_TOKEN are set
    request,        \* tags.py, badges.py: the arguments [product_ids, dry_run]
    remote,         \* the shop: for each product, whether it has the tag and a badge
    remote_at_call, \* the shop as it was when the function was called
    executed,       \* the mutations passed to ShopifyClient.execute
    results,        \* the returned dict [success, failed, errors]
    h_pc            \* "start" | "done" | "ValueError"

vars == <<master_df, aligned, m_pc, catalog, size_cols, order_row, breakout_df,
          final_hits, enriched_items, o_pc, contacts_df, customer_name,
          match_result, c_pc, now, pads_year, raw_date, ship_result, again_result,
          s_pc, order_file, aux_files, salesperson, order_df, loop, output_rows,
          output_dir, p_pc, sheet_columns, sheet_master, first_call, second_call,
          g_pc, master_sku_file, variant_file, built, b_pc, rows_in, contacts_file,
          all_matches, stats, warning, a_pc, path_name, inferred, f_pc, env_set,
          request, remote, remote_at_call, executed, results, h_pc>>

masterVars == <<master_df, aligned, m_pc>>
orderVars == <<catalog, size_cols, order_row, breakout_df, final_hits,
               enriched_items, o_pc>>
matchVars == <<contacts_df, customer_name, match_result, c_pc>>
dateVars == <<now, pads_year, raw_date, ship_result, again_result, s_pc>>
mainVars == <<order_file, aux_files, salesperson, order_df, loop, output_rows,
              output_dir, p_pc>>
sizeVars == <<sheet_columns, sheet_master, first_call, second_call, g_pc>>
buildVars == <<master_sku_file, variant_file, built, b_pc>>
allVars == <<rows_in, contacts_file, all_matches, stats, warning, a_pc>>
fileVars == <<path_name, inferred, f_pc>>
shopVars == <<env_set, request, remote, remote_at_call, executed, results, h_pc>>
restVars == <<sizeVars, buildVars, allVars, fileVars, shopVars>>

(***************************************************************************)
(* Bounds of the model.                                                    *)
(***************************************************************************)
MaxMasterRows == 3

\* Generic helpers on sequences.
Range(s) == {s[i] : i \in DOMAIN s}

SeqsUpTo(S, n) == UNION {[1..k -> S] : k \in 0..n}

(***************************************************************************)
(* master_data.py                                                          *)
(***************************************************************************)

\* str.strip on the cell values the model draws.
Strip(s) ==
    CASE s = " " -> ""
      [] s = " s" -> "s"
      [] s = " E6" -> "E6"
      [] OTHER -> s

\* str.upper on the cell values the model draws.
Upper(s) ==
    CASE s = "p1" -> "P1"
      [] s = "s" -> "S"
      [] s = "n/a" -> "N/A"
      [] s = "hic2" -> "HIC2"
      [] s = "Exclusive" -> "EXCLUSIVE"
      [] s = "Harem Pants" -> "HAREM PANTS"
      [] OTHER -> s

\* csv_utils._nonempty: fillna("").astype(str).str.strip()
Nonempty(s) == Strip(s)

\* "HIC" in s, on the (normalized) SKU values the model draws.
ContainsHIC(s) == s \in {"HIC2", "hic2"}

BAD_SENTINELS == {"", "N/A", "#N/A", "NA", "NONE"}

exclusive_filter_cols ==
    {"Season", "FAHO24 Status", "SPSU25 Status", "FAHO25 Status", "SPSU26 Status"}

normalize_cols ==
    {"SKU (Parent)", "Size Abbreviation", "SKU", "Collection"} \cup exclusive_filter_cols

\* Lines 148-152: every key/used column is stripped and uppercased.
NormalizeRow(r) ==
    [c \in DOMAIN r |-> IF c \in normalize_cols THEN Upper(Nonempty(r[c])) ELSE r[c]]

NormalizeMaster(m) == [i \in DOMAIN m |-> NormalizeRow(m[i])]

\* Lines 154-169: the row filters, applied to normalized rows.
KeepRow(r) ==
    /\ \A c \in exclusive_filter_cols : r[c] # "EXCLUSIVE"
    /\ r["Collection"] # "HAREM PANTS"
    /\ ~ContainsHIC(r["SKU"])
    /\ ~(r["SKU (Parent)"] \in BAD_SENTINELS \/ r["Size Abbreviation"] \in BAD_SENTINELS)

FilterMaster(m) == SelectSeq(NormalizeMaster(m), KeepRow)

\* Lines 172-173: the preference flags.
HasExt(r) == Nonempty(r["EXT_ID"]) # ""
HasUpc(r) == Nonempty(r["UPC"]) # ""

InClass(r, e, u) == HasExt(r) = e /\ HasUpc(r) = u

RowsOfClass(m, e, u) ==
    LET Test(r) == InClass(r, e, u) IN SelectSeq(m, Test)

\* A sort that ignores the preference flags (keeps input order).
SortByPreferenceDropped(m) == m

\* Line 174: stable (mergesort) sort on [__has_ext, __has_upc], both descending.
SortByPreference(m) ==
    RowsOfClass(m, TRUE, TRUE) \o RowsOfClass(m, TRUE, FALSE)
        \o RowsOfClass(m, FALSE, TRUE) \o RowsOfClass(m, FALSE, FALSE)

KeyOf(r) == <<r["SKU (Parent)"], r["Size Abbreviation"]>>

\* DataFrame.duplicated(subset=key): row i repeats the key of an earlier row.
Duplicated(m, i) == \E j \in 1..(i - 1) : KeyOf(m[j]) = KeyOf(m[i])

\* A drop_duplicates that drops nothing.
DropDuplicatesSkipped(m) == m

\* Line 177: drop_duplicates(subset=key, keep="first").
DropDuplicates(m) ==
    LET kept == {i \in DOMAIN m : ~Duplicated(m, i)}
        F[i \in 0..Len(m)] ==
            IF i = 0 THEN <<>>
            ELSE IF i \in kept THEN Append(F[i - 1], m[i]) ELSE F[i - 1]
    IN F[Len(m)]

\* An alignment that deduplicates first and filters afterwards.
AlignFilterAfterDedup(m) ==
    LET KeepSeq(rows) == SelectSeq(rows, KeepRow)
    IN [status |-> "done",
        rows |-> KeepSeq(DropDuplicates(SortByPreference(NormalizeMaster(m))))]

\* Lines 137-185: the whole function; status "RuntimeError" is the raise of line 183.
AlignMasterWithDupecheck(m) ==
    LET deduped == DropDuplicates(SortByPreference(FilterMaster(m)))
    IN IF \E i \in DOMAIN deduped : Duplicated(deduped, i)
       THEN [status |-> "RuntimeError", rows |-> <<>>]
       ELSE [status |-> "done", rows |-> deduped]

\* A master row as read from master-sku.csv and joined with EXT_ID.
MasterRow(parent, size, sku, upc, ext, coll, excl) ==
    [c \in {"SKU (Parent)", "Size Abbreviation", "SKU", "UPC", "EXT_ID", "Collection"}
           \cup exclusive_filter_cols |->
        CASE c = "SKU (Parent)" -> parent
          [] c = "Size Abbreviation" -> size
          [] c = "SKU" -> sku
          [] c = "UPC" -> upc
          [] c = "EXT_ID" -> ext
          [] c = "Collection" -> coll
          [] OTHER -> IF c = excl THEN "Exclusive" ELSE "Core"]

\* Rows that pass every filter: two keys with every combination of UPC and
\* EXT_ID present or absent, and a second spelling of the first key.
CleanRows ==
    {MasterRow(k[1], k[2], "K1", u, e, "Tops", "") :
        k \in {<<"P1", "S">>, <<"P1", "M">>}, u \in {"", "U1"}, e \in {"", "E1"}}
    \cup {MasterRow("p1", " s", "K1", "", "", "Tops", ""), MasterRow("p1", " s", "K1", "U1", "E1", "Tops", "")}

\* Rows that some filter drops; each has both EXT_ID and UPC.
ExcludedRows ==
    {MasterRow("P1", "S", "K1", "U1", "E1", "Tops", c) : c \in exclusive_filter_cols}
    \cup {MasterRow("P1", "S", "K1", "U1", "E1", "Harem Pants", ""),
          MasterRow("P1", "S", "hic2", "U1", "E1", "Tops", ""),
          MasterRow("n/a", "S", "K1", "U1", "E1", "Tops", ""),
          MasterRow("P1", " ", "K1", "U1", "E1", "Tops", "")}

MasterRowPool == CleanRows \cup ExcludedRows

WithIndex(rows) == [i \in DOMAIN rows |-> rows[i] @@ ("idx" :> i)]

MasterIdle == /\ master_df = <<>> /\ aligned = <<>> /\ m_pc = "idle"
OrderIdle ==
    /\ catalog = {} /\ size_cols = <<>> /\ order_row = <<>> /\ breakout_df = <<>>
    /\ final_hits = <<>> /\ enriched_items = <<>> /\ o_pc = "idle"
MatchIdle ==
    /\ contacts_df = <<>> /\ customer_name = <<>> /\ match_result = <<>>
    /\ c_pc = "idle"
DateIdle ==
    /\ now = <<>> /\ pads_year = TRUE /\ raw_date = <<>> /\ ship_result = <<>>
    /\ again_result = <<>> /\ s_pc = "idle"
MainIdle ==
    /\ order_file = <<>> /\ aux_files = <<>> /\ salesperson = "" /\ order_df = <<>>
    /\ loop = <<>> /\ output_rows = <<>> /\ output_dir = <<>> /\ p_pc = "idle"
SizeIdle ==
    /\ sheet_columns = <<>> /\ sheet_master = {} /\ first_call = <<>>
    /\ second_call = <<>> /\ g_pc = "idle"
BuildIdle ==
    /\ master_sku_file = <<>> /\ variant_file = <<>> /\ built = <<>> /\ b_pc = "idle"
AllIdle ==
    /\ rows_in = <<>> /\ contacts_file = <<>> /\ all_matches = <<>> /\ stats = <<>>
    /\ warning = <<>> /\ a_pc = "idle"
FileIdle == /\ path_name = <<>> /\ inferred = <<>> /\ f_pc = "idle"
ShopIdle ==
    /\ env_set = FALSE /\ request = <<>> /\ remote = <<>> /\ remote_at_call = <<>>
    /\ executed = <<>> /\ results = <<>> /\ h_pc = "idle"
RestIdle == SizeIdle /\ BuildIdle /\ AllIdle /\ FileIdle /\ ShopIdle

InitMaster ==
    /\ master_df \in {WithIndex(rows) : rows \in SeqsUpTo(MasterRowPool, MaxMasterRows)}
    /\ aligned = <<>>
    /\ m_pc = "start"
    /\ OrderIdle
    /\ MatchIdle
    /\ DateIdle
    /\ MainIdle
    /\ RestIdle

\* main, line 113: master_df = align_master_with_dupecheck(master_df, SIZE_ABBR_COL)
Align ==
    /\ m_pc = "start"
    /\ LET res == AlignMasterWithDupecheck(master_df)
       IN /\ m_pc' = res.status
          /\ aligned' = res.rows
    /\ UNCHANGED <<master_df, orderVars, matchVars, dateVars, mainVars, restVars>>

NextMaster == Align

SpecMaster == InitMaster /\ [][NextMaster]_vars

(***************************************************************************)
(* master_data.py: build_master_with_ext_id.  A variant row has the cells  *)
(* "Internal Reference" and "ID"; a master row has the cell "SKU".         *)
(***************************************************************************)
MaxVariantRows == 3
MaxSkuRows == 2

VariantRow(ref, id) == [c \in {"Internal Reference", "ID"} |-> IF c = "ID" THEN id ELSE ref]

\* Lines 47-48: preprocess_df strips the cells and upper-cases the SKU.
PreprocessMaster(m) == [i \in DOMAIN m |-> [c \in {"SKU"} |-> Upper(Strip(m[i]["SKU"]))]]

\* Lines 55-61: the Internal Reference, stripped and upper-cased.
NormalizeVariant(v) ==
    [i \in DOMAIN v |->
        [v[i] EXCEPT !["Internal Reference"] = Upper(Strip(v[i]["Internal Reference"]))]]

\* Line 65: __has_id
HasId(r) == Strip(r["ID"]) # ""

\* A build that keeps the rows of the variant file in file order.
SortHasIdFirstSkipped(v) == v

\* Line 66: sort_values("__has_id", ascending=False, kind="mergesort")
SortHasIdFirst(v) ==
    LET NoId(r) == ~HasId(r)
    IN SelectSeq(v, HasId) \o SelectSeq(v, NoId)

\* Line 67: drop_duplicates(subset=["Internal Reference"], keep="first")
DropDuplicateRefs(v) ==
    LET Repeated(i) == \E j \in 1..(i - 1) : v[j]["Internal Reference"] = v[i]["Internal Reference"]
        F[i \in 0..Len(v)] ==
            IF i = 0 THEN <<>>
            ELSE IF Repeated(i) THEN F[i - 1]
            ELSE Append(F[i - 1], v[i])
    IN F[Len(v)]

\* Lines 71-74: ext_id_lookup, a dict from Internal Reference to stripped ID.
ExtIdLookup(v) ==
    [ref \in {v[i]["Internal Reference"] : i \in DOMAIN v} |->
        Strip((CHOOSE r \in Range(v) : r["Internal Reference"] = ref)["ID"])]

\* Lines 47-102.  Line 100: master_df["SKU"].map(ext_id_lookup).fillna("")
BuildMasterWithExtId(master, variant) ==
    LET master_df_ == PreprocessMaster(master)
        ext_id_lookup == ExtIdLookup(DropDuplicateRefs(SortHasIdFirst(NormalizeVariant(variant))))
    IN [i \in DOMAIN master_df_ |->
           master_df_[i] @@
           ("EXT_ID" :> IF master_df_[i]["SKU"] \in DOMAIN ext_id_lookup
                        THEN ext_id_lookup[master_df_[i]["SKU"]]
                        ELSE "")]

\* SKU cells of master-sku.csv: lower case, padded, and without a variant.
SkuPool == {"p1", " s", "P2"}

\* Rows of product-variant-export.csv: P1 without ID and with two IDs; S with
\* a blank ID, a padded ID and an ID.
VariantPool ==
    {VariantRow("p1", ""), VariantRow("P1", "E1"), VariantRow("P1", "E5"),
     VariantRow(" s", " "), VariantRow("S", " E6"), VariantRow("s", "E5")}

InitBuild ==
    /\ master_sku_file \in {[i \in DOMAIN m |-> [c \in {"SKU"} |-> m[i]]] :
                               m \in SeqsUpTo(SkuPool, MaxSkuRows)}
    /\ variant_file \in SeqsUpTo(VariantPool, MaxVariantRows)
    /\ built = <<>>
    /\ b_pc = "start"
    /\ MasterIdle
    /\ OrderIdle
    /\ MatchIdle
    /\ DateIdle
    /\ MainIdle
    /\ SizeIdle
    /\ AllIdle
    /\ FileIdle
    /\ ShopIdle

\* main, line 112: master_df = build_master_with_ext_id(MASTER_SKU_FILE, PRODUCT_VARIANT_FILE)
Build ==
    /\ b_pc = "start"
    /\ built' = BuildMasterWithExtId(master_sku_file, variant_file)
    /\ b_pc' = "done"
    /\ UNCHANGED <<master_sku_file, variant_file, masterVars, orderVars, matchVars,
                   dateVars, mainVars, sizeVars, allVars, fileVars, shopVars>>

NextBuild == Build

SpecBuild == InitBuild /\ [][NextBuild]_vars

(***************************************************************************)
(* transform.py                                                            *)
(***************************************************************************)
MaxCols == 2

NaN == "NaN"

\* pd.to_numeric(qty, errors="coerce") on the cell strings the model draws.
\* A number is held as twice its value, so that halves are exact.
ToNumeric(cell) ==
    CASE cell = "0" -> [nan |-> FALSE, twice |-> 0]
      [] cell = "2" -> [nan |-> FALSE, twice |-> 4]
      [] cell = "0.5" -> [nan |-> FALSE, twice |-> 1]
      [] cell = "-1" -> [nan |-> FALSE, twice |-> -2]
      [] OTHER -> [nan |-> TRUE, twice |-> 0]

\* int(qty): truncation toward zero.
IntOf(twice) == IF twice >= 0 THEN twice \div 2 ELSE -((-twice) \div 2)

\* A cell test that also skips negative numbers and numbers below one.
SkippedUnlessPositive(cell) == ToNumeric(cell).nan \/ IntOf(ToNumeric(cell).twice) <= 0

\* Line 91: the cell is skipped.
Skipped(cell) == ToNumeric(cell).nan \/ ToNumeric(cell).twice = 0

\* Lines 88-97: the records of one row, in the order of size_cols.
BreakoutRecords(row, cols) ==
    LET F[i \in 0..Len(cols)] ==
            IF i = 0 THEN <<>>
            ELSE IF Skipped(row.qty[cols[i].col]) THEN F[i - 1]
            ELSE Append(F[i - 1],
                        [parent |-> row.parent,
                         size |-> cols[i].size,
                         qty |-> IntOf(ToNumeric(row.qty[cols[i].col]).twice)])
    IN F[Len(cols)]

\* Lines 82-99.  has_columns tells whether the returned frame has the columns
\* parent/size/qty: DataFrame.from_records([]) has none.
BreakoutMatrix(row, cols) ==
    IF row.parent = ""
    THEN [has_columns |-> TRUE, rows |-> <<>>]
    ELSE LET records == BreakoutRecords(row, cols)
         IN [has_columns |-> records # <<>>, rows |-> records]

\* One row of a left merge with the master on (SKU (Parent), Size Abbreviation);
\* the master is unique on the key, so validate="many_to_one" passes.
MergeRow(r, size, cat) ==
    LET hits == {m \in cat : /\ m["SKU (Parent)"] = r["SKU (Parent)"]
                             /\ m["Size Abbreviation"] = size}
        base == [c \in {"SKU (Parent)", "Size Abbreviation", "qty"} |->
                    IF c = "Size Abbreviation" THEN size ELSE r[c]]
    IN IF hits = {}
       THEN base @@ ("SKU" :> NaN) @@ ("UPC" :> NaN) @@ ("EXT_ID" :> NaN)
       ELSE LET m == CHOOSE h \in hits : TRUE
            IN base @@ ("SKU" :> m["SKU"]) @@ ("UPC" :> m["UPC"])
                    @@ ("EXT_ID" :> m["EXT_ID"])

\* Lines 126-134: rename and first pass.
Merged(rows, cat) ==
    [i \in DOMAIN rows |->
        MergeRow([c \in {"SKU (Parent)", "Size Abbreviation", "qty"} |->
                     CASE c = "SKU (Parent)" -> rows[i].parent
                       [] c = "Size Abbreviation" -> rows[i].size
                       [] OTHER -> rows[i].qty],
                 rows[i].size, cat)]

IsHit(r) == r["SKU"] # NaN
IsMissing(r) == r["SKU"] = NaN

\* A retry made for every missing row, whatever its size.
AliasPassAlways(missing, size, alias, cat) ==
    LET second == [i \in DOMAIN missing |-> MergeRow(missing[i], alias, cat)]
        hits == SelectSeq(second, IsHit)
    IN [hits |-> [i \in DOMAIN hits |-> [hits[i] EXCEPT !["Size Abbreviation"] = size]],
        still_missing |-> SelectSeq(second, IsMissing)]

\* Lines 144-176: the retry of the missing rows of one size under its alias;
\* the hits get the original size back.
AliasPass(missing, size, alias, cat) ==
    LET OfSize(r) == r["Size Abbreviation"] = size
        group == SelectSeq(missing, OfSize)
        second == [i \in DOMAIN group |-> MergeRow(group[i], alias, cat)]
        hits == SelectSeq(second, IsHit)
    IN [hits |-> [i \in DOMAIN hits |-> [hits[i] EXCEPT !["Size Abbreviation"] = size]],
        still_missing |-> SelectSeq(second, IsMissing)]

\* Line 196: final_hits = concat([keep_success, hits_S, hits_L]).
FinalHits(rows, cat) ==
    LET merged == Merged(rows, cat)
        keep_success == SelectSeq(merged, IsHit)
        missing == SelectSeq(merged, IsMissing)
    IN keep_success \o AliasPass(missing, "S", "SM", cat).hits
                    \o AliasPass(missing, "L", "LXL", cat).hits

\* Lines 197-201: the returned columns.
Items(hits) ==
    [i \in DOMAIN hits |->
        [sku |-> hits[i]["SKU"], barcode |-> hits[i]["UPC"],
         qty |-> hits[i]["qty"], ext_id |-> hits[i]["EXT_ID"]]]

\* Lines 126-201.  A frame without the key columns makes the merge of line
\* 129 raise KeyError.
EnrichWithMaster(df, cat) ==
    IF ~df.has_columns
    THEN [status |-> "KeyError", hits |-> <<>>, items |-> <<>>]
    ELSE [status |-> "done", hits |-> FinalHits(df.rows, cat),
          items |-> Items(FinalHits(df.rows, cat))]

\* An aligned master row.
CatalogRow(parent, size, upc, ext) ==
    [c \in {"SKU (Parent)", "Size Abbreviation", "SKU", "UPC", "EXT_ID"} |->
        CASE c = "SKU (Parent)" -> parent
          [] c = "Size Abbreviation" -> size
          [] c = "SKU" -> <<parent, size>>
          [] c = "UPC" -> upc
          [] OTHER -> ext]

\* One row per key, as alignment leaves the master.
CatalogPool ==
    {CatalogRow("P1", "S", "U1", "E1"), CatalogRow("P1", "SM", "U2", ""),
     CatalogRow("P1", "L", "", "E3"), CatalogRow("P1", "LXL", "U4", "E4")}

ColumnSizes == {"S", "SM", "L", "LXL", "M"}

CellPool == {"", "x", "0", "2", "0.5", "-1"}

\* A row without a Parent SKU never reaches the master, so it is drawn with
\* the full catalog only.
InitOrder ==
    /\ catalog \in SUBSET CatalogPool
    /\ \E n \in 1..MaxCols :
          /\ size_cols \in {[i \in 1..n |-> [col |-> i, size |-> f[i]]] :
                               f \in [1..n -> ColumnSizes]}
          /\ order_row \in {[parent |-> p, qty |-> q] :
                               p \in {"", "P1"}, q \in [1..n -> CellPool]}
    /\ order_row.parent = "" => catalog = CatalogPool
    /\ breakout_df = <<>>
    /\ final_hits = <<>>
    /\ enriched_items = <<>>
    /\ o_pc = "start"
    /\ MasterIdle
    /\ MatchIdle
    /\ DateIdle
    /\ MainIdle
    /\ RestIdle

\* main, line 163: breakout_df = breakout_matrix(row, size_cols, PARENT_COL)
Breakout ==
    /\ o_pc = "start"
    /\ breakout_df' = BreakoutMatrix(order_row, size_cols)
    /\ o_pc' = "broken"
    /\ UNCHANGED <<catalog, size_cols, order_row, final_hits, enriched_items,
                   masterVars, matchVars, dateVars, mainVars, restVars>>

\* main, line 166: enriched_items = enrich_with_master(breakout_df, master_df, ...)
Enrich ==
    /\ o_pc = "broken"
    /\ LET res == EnrichWithMaster(breakout_df, catalog)
       IN /\ o_pc' = res.status
          /\ final_hits' = res.hits
          /\ enriched_items' = res.items
    /\ UNCHANGED <<catalog, size_cols, order_row, breakout_df, masterVars, matchVars, dateVars, mainVars, restVars>>

NextOrder == Breakout \/ Enrich

SpecOrder == InitOrder /\ [][NextOrder]_vars

(***************************************************************************)
(* contact_matching.py.  A name is a sequence of characters.               *)
(***************************************************************************)
MaxContacts == 3

\* str.lower on one character.
Lower(ch) == IF ch = "A" THEN "a" ELSE IF ch = "B" THEN "b" ELSE ch

\* \s and [^\w\s] of the regular expressions, on one character.
IsSpace(ch) == ch = " "
IsPunct(ch) == ch \in {".", ",", "-", "&", "'"}

\* re.sub(r"\s+", " ", name).strip()
CollapseSpaces(name) ==
    LET F[i \in 0..Len(name)] ==
            IF i = 0 THEN <<>>
            ELSE IF ~IsSpace(name[i]) THEN Append(F[i - 1], name[i])
            ELSE IF F[i - 1] = <<>> \/ IsSpace(F[i - 1][Len(F[i - 1])]) THEN F[i - 1]
            ELSE Append(F[i - 1], " ")
        out == F[Len(name)]
    IN IF out # <<>> /\ IsSpace(out[Len(out)]) THEN SubSeq(out, 1, Len(out) - 1) ELSE out

\* str.strip
StripName(name) ==
    LET inner == {i \in DOMAIN name : ~IsSpace(name[i])}
    IN IF inner = {} THEN <<>>
       ELSE SubSeq(name, CHOOSE i \in inner : \A j \in inner : i <= j,
                         CHOOSE i \in inner : \A j \in inner : j <= i)

\* Lines 16-21.
NormalizeName(name) ==
    LET NotPunct(ch) == ~IsPunct(ch)
    IN CollapseSpaces(SelectSeq([i \in DOMAIN name |-> Lower(name[i])], NotPunct))

\* needle in hay / str.contains(needle, regex=False)
Contains(hay, needle) ==
    \E i \in 0..(Len(hay) - Len(needle)) : SubSeq(hay, i + 1, i + Len(needle)) = needle

\* Lines 26-33: the columns of a loaded contact.
LoadContact(id, name, flag) ==
    [ID |-> id, Name |-> StripName(name), IsACompany |-> flag,
     normalized |-> NormalizeName(StripName(name)), is_company |-> flag = "True"]

IsCompany(r) == r.is_company

Outcome(id, tier, detail, n) ==
    [id |-> id, info |-> [tier |-> tier, detail |-> detail, n |-> n]]

\* A tie-break that takes the first hit, company or not.
FirstHit(hits, tier) == {Outcome(hits[1].ID, tier, "", 0)}

\* Lines 50-55 and 59-63: a company hit is preferred, else the first hit.
PreferCompany(hits, tier) ==
    LET companies == SelectSeq(hits, IsCompany)
    IN IF companies # <<>>
       THEN {Outcome(companies[1].ID, tier, "company", 0)}
       ELSE {Outcome(hits[1].ID, tier, "", 0)}

\* Lines 48-55: the outcomes of the exact tier, none when it has no hit.
TierExact(name, contacts) ==
    LET Test(r) == r.Name = name
        exact == SelectSeq(contacts, Test)
    IN IF exact # <<>> THEN PreferCompany(exact, "Exact match") ELSE {}

\* Lines 57-63.
TierNormalized(name, contacts) ==
    LET Test(r) == r.normalized = NormalizeName(name)
        norm_matches == SelectSeq(contacts, Test)
    IN IF norm_matches # <<>> THEN PreferCompany(norm_matches, "Normalized match") ELSE {}

\* A contains tier that takes the first company of several.
TierContainsFirstCompany(name, contacts) ==
    LET Test(r) == Contains(r.normalized, NormalizeName(name))
        contains == SelectSeq(contacts, Test)
        companies == SelectSeq(contains, IsCompany)
    IN IF Len(contains) = 1
       THEN {Outcome(contains[1].ID, "Contains match",
                     IF contains[1].is_company THEN "company" ELSE "individual", 0)}
       ELSE IF Len(contains) > 1
       THEN IF Len(companies) = 1
            THEN {Outcome(companies[1].ID, "Contains match", "company, 1 of many", 0)}
            ELSE IF Len(companies) > 1
            THEN {Outcome(companies[1].ID, "Contains match", "company, 1 of",
                          Len(companies))}
            ELSE {Outcome(contains[1].ID, "Contains match", "1 of", Len(contains))}
       ELSE {}

\* A contains tier that resolves a single hit only and leaves several hits
\* to the next tier.
TierContainsSingleHit(name, contacts) ==
    LET Test(r) == Contains(r.normalized, NormalizeName(name))
        contains == SelectSeq(contacts, Test)
    IN IF Len(contains) = 1
       THEN {Outcome(contains[1].ID, "Contains match",
                     IF contains[1].is_company THEN "company" ELSE "individual", 0)}
       ELSE {}

\* Lines 65-83.  sort_values("_len") is not a stable sort, so among the
\* company hits of the least length any one may come first.
TierContains(name, contacts) ==
    LET Test(r) == Contains(r.normalized, NormalizeName(name))
        contains == SelectSeq(contacts, Test)
        companies == SelectSeq(contains, IsCompany)
    IN IF Len(contains) = 1
       THEN {Outcome(contains[1].ID, "Contains match",
                     IF contains[1].is_company THEN "company" ELSE "individual", 0)}
       ELSE IF Len(contains) > 1
       THEN IF Len(companies) = 1
            THEN {Outcome(companies[1].ID, "Contains match", "company, 1 of many", 0)}
            ELSE IF Len(companies) > 1
            THEN {Outcome(best.ID, "Contains match", "company, 1 of", Len(companies)) :
                    best \in {c \in Range(companies) :
                                \A d \in Range(companies) : Len(c.Name) <= Len(d.Name)}}
            ELSE {Outcome(contains[1].ID, "Contains match", "1 of", Len(contains))}
       ELSE {}

\* Lines 85-91.
TierReverse(name, contacts) ==
    LET Test(r) == IF r.normalized # <<>> THEN Contains(r.normalized, NormalizeName(name))
                   ELSE FALSE
        rev_contains == SelectSeq(contacts, Test)
        companies == SelectSeq(rev_contains, IsCompany)
    IN IF rev_contains # <<>>
       THEN IF companies # <<>>
            THEN {Outcome(companies[1].ID, "Partial match", "company, 1 of",
                          Len(rev_contains))}
            ELSE {Outcome(rev_contains[1].ID, "Partial match", "1 of", Len(rev_contains))}
       ELSE {}

\* The first tier of a list that has an outcome, else no match (line 93).
FirstOf(tiers) ==
    LET hit == {i \in DOMAIN tiers : tiers[i] # {}}
    IN IF hit = {} THEN {Outcome("", "No match", "", 0)}
       ELSE tiers[CHOOSE i \in hit : \A j \in hit : i <= j]

\* A matcher that tries the contains tier before the exact and normalized ones.
MatchCustomerContainsFirst(name, contacts) ==
    IF StripName(name) = <<>>
    THEN {Outcome("", "No name", "", 0)}
    ELSE FirstOf(<<TierContains(name, contacts), TierExact(name, contacts),
                   TierNormalized(name, contacts), TierReverse(name, contacts)>>)

\* Lines 36-93: the possible results (matched_id, match_info).
MatchCustomer(name, contacts) ==
    IF StripName(name) = <<>>
    THEN {Outcome("", "No name", "", 0)}
    ELSE FirstOf(<<TierExact(name, contacts), TierNormalized(name, contacts),
                   TierContains(name, contacts), TierReverse(name, contacts)>>)

\* Names with the differences the tiers tell apart: case ("B" and "b"),
\* punctuation ("A.b"), runs of spaces ("a  b" and "a b"), containment ("b"
\* in "a b") and a name that normalizes to the empty string (".").
NamePool ==
    {<<"b">>, <<"B">>, <<"A", ".", "b">>, <<"a", " ", "b">>, <<"a", " ", " ", "b">>,
     <<".">>}

ContactIds == <<"id1", "id2", "id3", "id4", "id5">>

ContactFiles ==
    {[i \in DOMAIN names |-> LoadContact(ContactIds[i], names[i][1], names[i][2])] :
        names \in SeqsUpTo(NamePool \X {"True", "False"}, MaxContacts)}

\* match_all_customers passes the stripped, non-empty names of the output
\* rows (lines 108-112).
InitMatch ==
    /\ contacts_df \in ContactFiles
    /\ customer_name \in {StripName(n) : n \in NamePool} \ {<<>>}
    /\ match_result = <<>>
    /\ c_pc = "start"
    /\ MasterIdle
    /\ OrderIdle
    /\ DateIdle
    /\ MainIdle
    /\ RestIdle

\* match_all_customers, line 120: match_customer(name, contacts_df)
Match ==
    /\ c_pc = "start"
    /\ match_result' \in MatchCustomer(customer_name, contacts_df)
    /\ c_pc' = "done"
    /\ UNCHANGED <<contacts_df, customer_name, masterVars, orderVars, dateVars, mainVars, restVars>>

NextMatch == Match

SpecMatch == InitMatch /\ [][NextMatch]_vars

(***************************************************************************)
(* csv_utils.py: clean_ship_date.  A date string is a sequence of          *)
(* characters; now is the reading of datetime.now(), with the time of day  *)
(* kept as tod: 0 is midnight exactly, 1 is any later instant of the day.  *)
(***************************************************************************)
MaxRawLen == 4

Digits == <<"0", "1", "2", "3", "4", "5", "6", "7", "8", "9">>

\* \d and [/\-] of DATE_PATTERN, on one character.
IsDigit(ch) == ch \in Range(Digits)
IsSep(ch) == ch \in {"/", "-"}

DigitAt(s, i) == i \in DOMAIN s /\ IsDigit(s[i])
SepAt(s, i) == i \in DOMAIN s /\ IsSep(s[i])

\* int(s) on a string of digits.
ToInt(s) ==
    LET Val(ch) == (CHOOSE k \in DOMAIN Digits : Digits[k] = ch) - 1
        F[i \in 0..Len(s)] == IF i = 0 THEN 0 ELSE 10 * F[i - 1] + Val(s[i])
    IN F[Len(s)]

\* str.upper on one character.
UpperChar(ch) ==
    CASE ch = "a" -> "A" [] ch = "s" -> "S" [] ch = "p" -> "P"
      [] ch = "t" -> "T" [] ch = "b" -> "B" [] ch = "d" -> "D"
      [] ch = "q" -> "Q" [] ch = "y" -> "Y" [] ch = "m" -> "M"
      [] ch = "l" -> "L" [] ch = "x" -> "X" [] ch = "j" -> "J"
      [] ch = "c" -> "C" [] ch = "k" -> "K"
      [] OTHER -> ch

\* raw_date.strip() and raw.upper() of lines 119 and 122.
StripDate(s) == StripName(s)
UpperDate(s) == [i \in DOMAIN s |-> UpperChar(s[i])]

\* DATE_PATTERN matched at position i: (\d{1,2})[/\-](\d{1,2})(?:[/\-](\d{2,4}))?
\* Every quantifier is greedy; the month gives a digit back when two digits
\* are not followed by a separator and a digit, and the year group is left
\* out when the separator is not followed by two digits.
MatchAt(s, i) ==
    LET mlen == IF DigitAt(s, i) /\ DigitAt(s, i + 1) /\ SepAt(s, i + 2)
                   /\ DigitAt(s, i + 3) THEN 2
                ELSE IF DigitAt(s, i) /\ SepAt(s, i + 1) /\ DigitAt(s, i + 2) THEN 1
                ELSE 0
        d == i + mlen + 1
        dlen == IF DigitAt(s, d + 1) THEN 2 ELSE 1
        y == d + dlen + 1
        ylen == IF SepAt(s, y - 1) /\ DigitAt(s, y) /\ DigitAt(s, y + 1)
                THEN IF DigitAt(s, y + 2)
                     THEN IF DigitAt(s, y + 3) THEN 4 ELSE 3
                     ELSE 2
                ELSE 0
    IN IF mlen = 0
       THEN [ok |-> FALSE, month |-> <<>>, day |-> <<>>, year_str |-> <<>>]
       ELSE [ok |-> TRUE,
             month |-> SubSeq(s, i, i + mlen - 1),
             day |-> SubSeq(s, d, d + dlen - 1),
             year_str |-> SubSeq(s, y, y + ylen - 1)]

\* DATE_PATTERN.search(raw): the leftmost match.
Search(s) ==
    LET hits == {i \in DOMAIN s : MatchAt(s, i).ok}
    IN IF hits = {} THEN MatchAt(s, 0)
       ELSE MatchAt(s, CHOOSE i \in hits : \A j \in hits : i <= j)

\* The calendar of datetime(year, month, day): ValueError when not Valid.
IsLeap(y) == (y % 4 = 0 /\ y % 100 # 0) \/ y % 400 = 0
DaysInMonth(y, m) ==
    IF m \in {4, 6, 9, 11} THEN 30 ELSE IF m = 2 THEN (IF IsLeap(y) THEN 29 ELSE 28) ELSE 31
Valid(y, m, d) == y \in 1..9999 /\ m \in 1..12 /\ d \in 1..DaysInMonth(y, m)

\* Line 116: datetime.now() + timedelta(days=1), as a date.
Tomorrow(n) ==
    IF n.day < DaysInMonth(n.year, n.month)
    THEN [year |-> n.year, month |-> n.month, day |-> n.day + 1]
    ELSE IF n.month < 12 THEN [year |-> n.year, month |-> n.month + 1, day |-> 1]
    ELSE [year |-> n.year + 1, month |-> 1, day |-> 1]

\* %m and %d of strftime: two digits.
Pad2(k) == <<Digits[(k \div 10) + 1], Digits[(k % 10) + 1]>>

\* %Y of strftime: the platform's C library either pads the year to four
\* digits or prints it as a plain decimal number.
YearString(y, pads) ==
    LET F[k \in 0..4] ==
            IF k = 0 THEN <<>>
            ELSE IF k > 1 /\ ~pads /\ y \div (IF k = 2 THEN 10 ELSE IF k = 3 THEN 100 ELSE 1000) = 0
                 THEN F[k - 1]
            ELSE <<Digits[((y \div (IF k = 1 THEN 1 ELSE IF k = 2 THEN 10
                                     ELSE IF k = 3 THEN 100 ELSE 1000)) % 10) + 1]>>
                 \o F[k - 1]
    IN F[4]

\* A strftime that writes the day before the month.
FormatDateDayFirst(y, m, d, pads) == Pad2(d) \o <<"/">> \o Pad2(m) \o <<"/">> \o YearString(y, pads)

\* strftime("%m/%d/%Y") of lines 117 and 152.
FormatDate(y, m, d, pads) == Pad2(m) \o <<"/">> \o Pad2(d) \o <<"/">> \o YearString(y, pads)

\* Lines 133-136: a year below 100 is a two-digit year with pivot 50.
ExpandYear(year) ==
    IF year < 100 THEN (IF year < 50 THEN year + 2000 ELSE year + 1900) ELSE year

\* A comparison of calendar dates, which ignores the time of day.
InPastByDate(m, d, n) == m < n.month \/ (m = n.month /\ d < n.day)

\* Line 141: test_date < datetime.now(), test_date being midnight of
\* (current_year, month, day).
InPast(m, d, n) == m < n.month \/ (m = n.month /\ (d < n.day \/ (d = n.day /\ 0 < n.tod)))

\* Lines 104-158.  The function reads the clock at lines 116, 138 and 141;
\* the three readings are taken as one instant n.  pads is the behaviour of
\* the platform's %Y.
CleanShipDateUnchecked(raw_date_arg, n, pads) ==
    LET t == Tomorrow(n)
        raw == StripDate(raw_date_arg)
        match == Search(raw)
        month == ToInt(match.month)
        day == ToInt(match.day)
        year == IF match.year_str # <<>> THEN ExpandYear(ToInt(match.year_str))
                ELSE IF InPast(month, day, n) THEN n.year + 1 ELSE n.year
    IN IF raw = <<>> \/ UpperDate(raw) = <<"A", "S", "A", "P">> \/ ~match.ok
       THEN [date |-> FormatDate(t.year, t.month, t.day, pads), defaulted |-> TRUE]
       ELSE [date |-> FormatDate(year, month, day, pads), defaulted |-> FALSE]

CleanShipDate(raw_date_arg, n, pads) ==
    LET t == Tomorrow(n)
        tomorrow_str == FormatDate(t.year, t.month, t.day, pads)
        Default == [date |-> tomorrow_str, defaulted |-> TRUE]
        raw == StripDate(raw_date_arg)
        match == Search(raw)
        month == ToInt(match.month)
        day == ToInt(match.day)
        year == IF match.year_str # <<>> THEN ExpandYear(ToInt(match.year_str))
                ELSE IF InPast(month, day, n) THEN n.year + 1 ELSE n.year
    IN IF raw = <<>> \/ UpperDate(raw) = <<"A", "S", "A", "P">> THEN Default
       ELSE IF ~match.ok THEN Default
       ELSE IF match.year_str = <<>> /\ ~Valid(n.year, month, day) THEN Default
       ELSE IF Valid(year, month, day)
            THEN [date |-> FormatDate(year, month, day, pads), defaulted |-> FALSE]
       ELSE Default

\* Readings of the clock: an ordinary day at midnight and later, the last
\* day of a year, the days around 29 February, and 2 January.
Clock(y, m, d, tod) == [year |-> y, month |-> m, day |-> d, tod |-> tod]
NowPool ==
    {Clock(2026, 11, 5, 0), Clock(2026, 11, 5, 1), Clock(2024, 12, 31, 1),
     Clock(2024, 2, 28, 1), Clock(2024, 3, 1, 0), Clock(2027, 3, 1, 1),
     Clock(2026, 1, 2, 0), Clock(2026, 1, 2, 1)}

\* Ship Date cells: chosen spellings, and every string of at most MaxRawLen
\* characters over DateAlphabet.
DateAlphabet == {"1", "2", "9", "/"}
CuratedDates ==
    {<<>>, <<" ">>, <<"a", "s", "a", "p">>, <<"A", "S", "A", "P">>,
     <<" ", "A", "s", "a", "p", " ">>, <<"t", "b", "d">>,
     <<"1", "2", "/", "2", "5">>, <<"1", "2", "/", "3", "1">>,
     <<"1", "3", "/", "4", "5">>, <<"2", "/", "3", "0">>, <<"0", "/", "5">>, <<"1", "/", "0">>,
     <<"1", "1", "/", "5">>, <<"1", "1", "-", "0", "5">>,
     <<" ", "1", "1", "/", "5", " ">>, <<"1", "/", "2", "/", "2", "6">>,
     <<"1", "/", "2", "/", "4", "9">>, <<"1", "/", "2", "/", "5", "0">>,
     <<"1", "/", "2", "/", "9", "9">>,
     <<"1", "/", "2", "/", "1", "2", "3">>,
     <<"1", "/", "2", "/", "0", "1", "2", "3">>,
     <<"0", "1", "-", "0", "2", "-", "2", "0", "2", "7">>,
     <<"x", " ", "3", "/", "4">>, <<"2", "/", "2", "9", "/", "2", "4">>,
     <<"2", "/", "2", "9", "/", "2", "0", "2", "3">>,
     <<"2", "/", "2", "9", "/", "1", "0", "0">>,
     <<"1", "2", "/", "1", "/", "2", "/", "1", "9", "9", "9">>,
     <<"1", "2", "3", "/", "4", "/", "5">>,
     <<"1", "/", "2", "/", "2", "0", "2", "6", "7">>}
RawDatePool == CuratedDates \cup SeqsUpTo(DateAlphabet, MaxRawLen)

InitShip ==
    /\ now \in NowPool
    /\ pads_year \in BOOLEAN
    /\ raw_date \in RawDatePool
    /\ ship_result = <<>>
    /\ again_result = <<>>
    /\ s_pc = "start"
    /\ MasterIdle
    /\ OrderIdle
    /\ MatchIdle
    /\ MainIdle
    /\ RestIdle

\* main, line 144: ship_date, defaulted = clean_ship_date(row.get("Ship Date", ""))
Clean ==
    /\ s_pc = "start"
    /\ ship_result' = CleanShipDate(raw_date, now, pads_year)
    /\ s_pc' = "cleaned"
    /\ UNCHANGED <<now, pads_year, raw_date, again_result, masterVars, orderVars, matchVars,
                   mainVars, restVars>>

\* clean_ship_date applied to a date it returned, at any later reading of
\* the clock.
CleanAgain ==
    /\ s_pc = "cleaned"
    /\ \E later \in NowPool : again_result' = CleanShipDate(ship_result.date, later, pads_year)
    /\ s_pc' = "done"
    /\ UNCHANGED <<now, pads_year, raw_date, ship_result, masterVars, orderVars, matchVars,
                   mainVars, restVars>>

NextShip == Clean \/ CleanAgain

SpecShip == InitShip /\ [][NextShip]_vars

(***************************************************************************)
(* transform.py: get_size_columns.  A header is a sequence of characters.  *)
(***************************************************************************)
MaxSheetRows == 3

\* The characters of the strings that the model keeps as atoms.
Chars(s) ==
    CASE s = "id1" -> <<"i", "d", "1">>
      [] s = "id2" -> <<"i", "d", "2">>
      [] s = "id3" -> <<"i", "d", "3">>
      [] s = "id4" -> <<"i", "d", "4">>
      [] s = "id5" -> <<"i", "d", "5">>
      [] s = "Exact match" -> <<"E", "x", "a", "c", "t", " ", "m", "a", "t", "c", "h">>
      [] s = "Normalized match" -> <<"N", "o", "r", "m", "a", "l", "i", "z", "e", "d", " ", "m", "a", "t", "c", "h">>
      [] s = "Contains match" -> <<"C", "o", "n", "t", "a", "i", "n", "s", " ", "m", "a", "t", "c", "h">>
      [] s = "Partial match" -> <<"P", "a", "r", "t", "i", "a", "l", " ", "m", "a", "t", "c", "h">>
      [] s = "No match" -> <<"N", "o", " ", "m", "a", "t", "c", "h">>
      [] s = "No name" -> <<"N", "o", " ", "n", "a", "m", "e">>
      [] s = "company" -> <<"c", "o", "m", "p", "a", "n", "y">>
      [] s = "individual" -> <<"i", "n", "d", "i", "v", "i", "d", "u", "a", "l">>
      [] s = "company, 1 of many" -> <<"c", "o", "m", "p", "a", "n", "y", ",", " ", "1", " ", "o", "f", " ", "m", "a", "n", "y">>
      [] s = "company, 1 of" -> <<"c", "o", "m", "p", "a", "n", "y", ",", " ", "1", " ", "o", "f">>
      [] s = "1 of" -> <<"1", " ", "o", "f">>
      [] s = "S" -> <<"S">>
      [] s = "SM" -> <<"S", "M">>
      [] s = "M" -> <<"M">>
      [] s = "L" -> <<"L">>
      [] s = "LXL" -> <<"L", "X", "L">>
      [] s = "OSFM" -> <<"O", "S", "F", "M">>
      [] s = "QTY" -> <<"Q", "T", "Y">>
      [] s = "SHIP DATE: " -> <<"S", "H", "I", "P", " ", "D", "A", "T", "E", ":", " ">>
      [] s = "CUSTOMER MATCH: (" -> <<"C", "U", "S", "T", "O", "M", "E", "R", " ", "M", "A", "T", "C", "H", ":", " ", "(">>
      [] s = " --> " -> <<" ", "-", "-", ">", " ">>
      [] s = ") " -> <<")", " ">>
      [] s = ") No match" -> <<")", " ", "N", "o", " ", "m", "a", "t", "c", "h">>
      [] s = " | " -> <<" ", "|", " ">>
      [] s = " --- " -> <<" ", "-", "-", "-", " ">>
      [] s = ", " -> <<",", " ">>
      [] s = "(blank)" -> <<"(", "b", "l", "a", "n", "k", ")">>
      [] OTHER -> <<>>

\* sep.join(texts)
Join(sep, texts) ==
    LET F[i \in 0..Len(texts)] ==
            IF i = 0 THEN <<>>
            ELSE IF i = 1 THEN texts[1]
            ELSE F[i - 1] \o sep \o texts[i]
    IN F[Len(texts)]

\* str.replace("QTY", ""): every occurrence, left to right.
RECURSIVE RemoveQty(_)
RemoveQty(s) ==
    IF Len(s) < 3 THEN s
    ELSE IF SubSeq(s, 1, 3) = Chars("QTY") THEN RemoveQty(SubSeq(s, 4, Len(s)))
    ELSE <<s[1]>> \o RemoveQty(Tail(s))

\* str.replace("/", " ")
SlashToSpace(s) == [i \in DOMAIN s |-> IF s[i] = "/" THEN " " ELSE s[i]]

\* str.split(): the runs of characters between whitespace.
Split(s) ==
    LET F[i \in 0..Len(s)] ==
            IF i = 0 THEN [tokens |-> <<>>, word |-> <<>>]
            ELSE IF IsSpace(s[i])
                 THEN (IF F[i - 1].word = <<>> THEN F[i - 1]
                       ELSE [tokens |-> Append(F[i - 1].tokens, F[i - 1].word),
                             word |-> <<>>])
            ELSE [tokens |-> F[i - 1].tokens, word |-> Append(F[i - 1].word, s[i])]
        last == F[Len(s)]
    IN IF last.word = <<>> THEN last.tokens ELSE Append(last.tokens, last.word)

\* Line 47: col.upper().replace("QTY", "").replace("/", " ").strip()
UpperHeader(col) == [i \in DOMAIN col |-> UpperChar(col[i])]
ColClean(col) == StripName(SlashToSpace(RemoveQty(UpperHeader(col))))

\* Lines 37-43: the upper-cased sizes of the master, and OSFM.
SizeSet(master) == {Upper(r["Size Abbreviation"]) : r \in master} \cup {"OSFM"}

\* The orders in which a set can be iterated.
Orderings(S) ==
    {f \in [1..Cardinality(S) -> S] : \A i, j \in DOMAIN f : f[i] = f[j] => i = j}

\* A detection that accepts a size found anywhere in the cleaned header.
SizeOfColumnSubstring(col, iteration) ==
    LET hits == {i \in DOMAIN iteration :
                    Chars(iteration[i]) # <<>> /\ Contains(ColClean(col), Chars(iteration[i]))}
    IN IF hits = {} THEN ""
       ELSE iteration[CHOOSE i \in hits : \A j \in hits : i <= j]

\* Lines 48-51: the first size, in the iteration order of size_set, that is a
\* token of the cleaned header; "" when there is none.
SizeOfColumn(col, iteration) ==
    LET tokens == Range(Split(ColClean(col)))
        hits == {i \in DOMAIN iteration : Chars(iteration[i]) \in tokens}
    IN IF hits = {} THEN ""
       ELSE iteration[CHOOSE i \in hits : \A j \in hits : i <= j]

\* Lines 45-51: the mapping, as the sequence of its entries in column order.
SizeColumns(columns, iteration) ==
    LET F[i \in 0..Len(columns)] ==
            IF i = 0 THEN <<>>
            ELSE IF SizeOfColumn(columns[i], iteration) = "" THEN F[i - 1]
            ELSE Append(F[i - 1], [col |-> i, size |-> SizeOfColumn(columns[i], iteration)])
    IN F[Len(columns)]

\* A detection that returns the empty mapping instead of raising.
GetSizeColumnsLenient(columns, master) ==
    {[status |-> "done", size_cols |-> SizeColumns(columns, it)] :
        it \in Orderings(SizeSet(master))}

\* Lines 37-56.  size_set is a Python set of strings, whose iteration order
\* differs from one interpreter run to the next: every order is an outcome.
GetSizeColumns(columns, master) ==
    {IF SizeColumns(columns, it) = <<>>
     THEN [status |-> "ValueError", size_cols |-> <<>>]
     ELSE [status |-> "done", size_cols |-> SizeColumns(columns, it)] :
        it \in Orderings(SizeSet(master))}

\* Bounds of the sheets that get_size_columns is called on.
MaxHeaders == 2

\* Headers of order-sheet columns: a plain size, sizes with "qty" in either
\* case, two sizes in one header, a size inside a longer word, a header that
\* becomes a size once "QTY" is removed, OSFM, and a header without a size.
HeaderPool ==
    {<<"S">>,
     <<"M", " ", "q", "t", "y">>,
     <<"s", " ", "Q", "T", "Y">>,
     <<"S", "/", "M", " ", "Q", "T", "Y">>,
     <<"X", "S">>,
     <<"S", "q", "t", "y", "M">>,
     <<"O", "S", "F", "M">>,
     <<"Q", "t", "y">>}

\* The Size Abbreviation cells of the master rows.
MasterSizePool == {"s", "M", "SM"}

SizeRow(size) == [c \in {"Size Abbreviation"} |-> size]

InitSizes ==
    /\ sheet_columns \in {cs \in SeqsUpTo(HeaderPool, MaxHeaders) :
                             \A i, j \in DOMAIN cs : cs[i] = cs[j] => i = j}
    /\ sheet_master \in {{SizeRow(x) : x \in xs} : xs \in SUBSET MasterSizePool}
    /\ first_call = <<>>
    /\ second_call = <<>>
    /\ g_pc = "start"
    /\ MasterIdle
    /\ OrderIdle
    /\ MatchIdle
    /\ DateIdle
    /\ MainIdle
    /\ BuildIdle
    /\ AllIdle
    /\ FileIdle
    /\ ShopIdle

\* main, line 117: size_cols = get_size_columns(order_df, master_df, SIZE_ABBR_COL)
Detect ==
    /\ g_pc = "start"
    /\ first_call' \in GetSizeColumns(sheet_columns, sheet_master)
    /\ g_pc' = "called"
    /\ UNCHANGED <<sheet_columns, sheet_master, second_call, masterVars, orderVars,
                   matchVars, dateVars, mainVars, buildVars, allVars, fileVars, shopVars>>

\* The same call on the same files, in another run of the script.
DetectAgain ==
    /\ g_pc = "called"
    /\ second_call' \in GetSizeColumns(sheet_columns, sheet_master)
    /\ g_pc' = "done"
    /\ UNCHANGED <<sheet_columns, sheet_master, first_call, masterVars, orderVars,
                   matchVars, dateVars, mainVars, buildVars, allVars, fileVars, shopVars>>

NextSizes == Detect \/ DetectAgain

SpecSizes == InitSizes /\ [][NextSizes]_vars

(***************************************************************************)
(* order-transformation.py: main.  An order-sheet row is a function of the *)
(* columns Customer, Rep Notes, Ship Date and Parent SKU, with the cells   *)
(* of the remaining columns under "qty", by column position.  None is 0    *)
(* for current_order_first_idx, and positions in output_rows start at 1.   *)
(***************************************************************************)
SALES_TEAM == "Wholesale"
TAG == "SURFJAN26"

SheetRow(customer, rep_notes, ship_date, parent, cells) ==
    [c \in {"Customer", "Rep Notes", "Ship Date", "Parent SKU", "qty"} |->
        CASE c = "Customer" -> customer
          [] c = "Rep Notes" -> rep_notes
          [] c = "Ship Date" -> ship_date
          [] c = "Parent SKU" -> parent
          [] OTHER -> cells]

\* Lines 83-91 of csv_utils.py: preprocess_df strips the headers and every
\* cell, and upper-cases the Parent SKU column.
PreprocessDf(f) ==
    [columns |-> [i \in DOMAIN f.columns |-> StripName(f.columns[i])],
     rows |-> [i \in DOMAIN f.rows |->
                  SheetRow(StripName(f.rows[i]["Customer"]),
                           StripName(f.rows[i]["Rep Notes"]),
                           StripName(f.rows[i]["Ship Date"]),
                           Upper(Strip(f.rows[i]["Parent SKU"])),
                           [c \in DOMAIN f.rows[i]["qty"] |-> Strip(f.rows[i]["qty"][c])])]]

\* Lines 120-129.
LoopStart ==
    [i |-> 0,
     current_order_header |-> <<>>,
     current_ship_date |-> <<>>,
     first_item_in_order |-> FALSE,
     missing_ext_ids |-> <<>>,
     defaulted_ship_dates |-> <<>>,
     current_order_notes |-> <<>>,
     current_order_first_idx |-> 0]

\* An assembled row.
OutputRow(sp, team, name, ship_date, sku, qty, ext_id, tags, notes) ==
    [c \in {"Salesperson", "Sales Team", "Name", "_ship_date", "SKU", "Quantity",
            "External ID", "Tags", "Rep Notes"} |->
        CASE c = "Salesperson" -> sp
          [] c = "Sales Team" -> team
          [] c = "Name" -> name
          [] c = "_ship_date" -> ship_date
          [] c = "SKU" -> sku
          [] c = "Quantity" -> qty
          [] c = "External ID" -> ext_id
          [] c = "Tags" -> tags
          [] OTHER -> notes]

\* A finalization that overwrites nothing.
FinalizeNotesDropped(rows, first_idx, notes) == rows

\* Lines 138-140 and 201-203: the notes gathered for the order go on its
\* first row.
FinalizeNotes(rows, first_idx, notes) ==
    IF first_idx # 0 /\ notes # <<>>
    THEN [rows EXCEPT ![first_idx]["Rep Notes"] = Join(Chars(" --- "), notes)]
    ELSE rows

\* A row builder that repeats the header on every item.
BuildRowsAllHeaders(items, header, first) ==
    [k \in DOMAIN items |->
        IF first
        THEN OutputRow(header.Salesperson, header.SalesTeam, header.Name,
                       header.ship_date, items[k].sku, items[k].qty, items[k].ext_id,
                       header.Tags, header.RepNotes)
        ELSE OutputRow("", "", <<>>, <<>>, items[k].sku, items[k].qty, items[k].ext_id,
                       "", <<>>)]

\* Lines 169-198: the rows of the items of one sheet row; first is
\* first_item_in_order on entry.
BuildRows(items, header, first) ==
    [k \in DOMAIN items |->
        IF first /\ k = 1
        THEN OutputRow(header.Salesperson, header.SalesTeam, header.Name,
                       header.ship_date, items[k].sku, items[k].qty, items[k].ext_id,
                       header.Tags, header.RepNotes)
        ELSE OutputRow("", "", <<>>, <<>>, items[k].sku, items[k].qty, items[k].ext_id,
                       "", <<>>)]

\* datetime.now() of the runs of the model; the year has four digits, so the
\* padding of %Y plays no part.
MainClock == Clock(2026, 11, 5, 1)

\* Lines 131-198: the body of the loop for one row, given what clean_ship_date
\* (line 144) and enrich_with_master (line 166) return for it.  status is
\* "KeyError" when enrich_with_master raises.
ProcessOneRow(row, st, rows, sp, cleaned, enriched) ==
    LET customer == StripName(row["Customer"])
        rep_note == StripName(row["Rep Notes"])
        starts == customer # <<>>
        raw_ship_date == StripName(row["Ship Date"])
        rows1 == IF starts
                 THEN FinalizeNotes(rows, st.current_order_first_idx, st.current_order_notes)
                 ELSE rows
        header == IF starts
                  THEN [Salesperson |-> sp, SalesTeam |-> SALES_TEAM, Name |-> customer,
                        ship_date |-> cleaned.date, Tags |-> TAG, RepNotes |-> <<>>]
                  ELSE st.current_order_header
        defaulted == IF starts /\ cleaned.defaulted
                     THEN Append(st.defaulted_ship_dates,
                                 <<customer, IF raw_ship_date # <<>> THEN raw_ship_date
                                             ELSE Chars("(blank)")>>)
                     ELSE st.defaulted_ship_dates
        first == starts \/ st.first_item_in_order
        notes0 == IF starts THEN <<>> ELSE st.current_order_notes
        notes1 == IF rep_note # <<>> THEN Append(notes0, rep_note) ELSE notes0
        idx0 == IF starts THEN 0 ELSE st.current_order_first_idx
        items == enriched.items
        NoExt(it) == it.ext_id = ""
        missing == SelectSeq(items, NoExt)
        st1 == [i |-> st.i + 1,
                current_order_header |-> header,
                current_ship_date |-> IF starts THEN cleaned.date ELSE st.current_ship_date,
                first_item_in_order |-> first /\ items = <<>>,
                missing_ext_ids |-> st.missing_ext_ids \o [k \in DOMAIN missing |-> missing[k].sku],
                defaulted_ship_dates |-> defaulted,
                current_order_notes |-> notes1,
                current_order_first_idx |-> IF first /\ items # <<>> THEN Len(rows1) + 1 ELSE idx0]
    IN [status |-> enriched.status,
        st |-> st1,
        rows |-> rows1 \o BuildRows(items, header, first)]

\* match_all_customers, lines 108-121 of contact_matching.py: one outcome of
\* match_customer for every distinct non-empty name of the rows.
MatchAllCustomers(rows, contacts) ==
    LET customer_names == {StripName(r["Name"]) : r \in Range(rows)} \ {<<>>}
    IN {m \in [customer_names -> UNION {MatchCustomer(n, contacts) : n \in customer_names}] :
           \A n \in customer_names : m[n] \in MatchCustomer(n, contacts)}

\* match_info.strip("[]") of line 244, on the label that match_customer formats.
MatchType(info) ==
    Chars(info.tier)
    \o (IF info.detail = "" THEN <<>> ELSE Chars(", ") \o Chars(info.detail))
    \o (IF info.n > 0 THEN <<" ", Digits[info.n + 1]>> ELSE <<>>)

\* Lines 239-251: the customer-match annotation and the ID of a row.
MatchPart(name, matches) ==
    IF name \in DOMAIN matches /\ matches[name].id # ""
    THEN Chars("CUSTOMER MATCH: (") \o name \o Chars(" --> ") \o Chars(matches[name].id)
         \o Chars(") ") \o MatchType(matches[name].info)
    ELSE Chars("CUSTOMER MATCH: (") \o name \o Chars(") No match")

\* A final pass that puts the rep notes in front of the annotations.
AnnotateRowNotesFirst(row, matches) ==
    LET name == StripName(row["Name"])
        ship_date == row["_ship_date"]
        existing_notes == row["Rep Notes"]
        rest == [c \in DOMAIN row \ {"_ship_date"} |-> row[c]]
        notes_parts ==
            (IF existing_notes # <<>> THEN <<existing_notes>> ELSE <<>>)
            \o (IF ship_date # <<>> THEN <<Chars("SHIP DATE: ") \o ship_date>> ELSE <<>>)
            \o <<MatchPart(name, matches)>>
    IN IF name # <<>>
       THEN [rest EXCEPT !["Rep Notes"] = Join(Chars(" | "), notes_parts)]
            @@ ("ID" :> IF name \in DOMAIN matches THEN matches[name].id ELSE "")
       ELSE rest @@ ("ID" :> "")

\* Lines 225-258: one row of the final pass.
AnnotateRow(row, matches) ==
    LET name == StripName(row["Name"])
        ship_date == row["_ship_date"]
        existing_notes == row["Rep Notes"]
        rest == [c \in DOMAIN row \ {"_ship_date"} |-> row[c]]
        notes_parts ==
            (IF ship_date # <<>> THEN <<Chars("SHIP DATE: ") \o ship_date>> ELSE <<>>)
            \o <<MatchPart(name, matches)>>
            \o (IF existing_notes # <<>> THEN <<existing_notes>> ELSE <<>>)
    IN IF name # <<>>
       THEN [rest EXCEPT !["Rep Notes"] = Join(Chars(" | "), notes_parts)]
            @@ ("ID" :> IF name \in DOMAIN matches THEN matches[name].id ELSE "")
       ELSE rest @@ ("ID" :> "")

columns_order ==
    {"Salesperson", "Sales Team", "Name", "ID", "SKU", "Quantity", "External ID", "Tags",
     "Rep Notes"}

\* Line 268: out_df.to_csv(output_file, columns=columns_order, index=False)
ToCsv(rows) == [i \in DOMAIN rows |-> [c \in columns_order |-> rows[i][c]]]

\* An exit that saves the rows assembled so far.
AfterExceptionFlushed(dir, rows) == [dir EXCEPT !.csv = rows, !.writes = dir.writes + 1]

\* The output directory after an exception has ended the run: main has no
\* handler, so nothing is written on the way out.
AfterException(dir, rows) == dir

\* The master file of the runs of the model: two rows of one key, a row
\* without EXT_ID, a size that no row of P1 has, and a filtered row.
MainMasterFile ==
    WithIndex(<<MasterRow("P1", "S", "K1", "U1", "E1", "Tops", ""),
                MasterRow("P1", "S", "K2", "", "", "Tops", ""),
                MasterRow("P1", "L", "K3", "U3", "", "Tops", ""),
                MasterRow("P2", "M", "K5", "U5", "E5", "Tops", ""),
                MasterRow("P1", "M", "K6", "U6", "E6", "Harem Pants", "")>>)

\* The contacts file of the runs of the model.
MainContacts ==
    <<LoadContact("id1", <<"b">>, "True"), LoadContact("id2", <<"a", " ", "b">>, "False")>>

\* Headers of the quantity columns: a size of P1 and a size that P1 lacks; a
\* lower-case header and a header with two sizes; no size at all.
ColumnSets ==
    {<<<<"S">>, <<"M", " ", "q", "t", "y">>>>,
     <<<<"s", " ", "q", "t", "y">>, <<"S", "/", "L">>>>,
     <<<<"X", "S">>, <<"Q", "t", "y">>>>}

Cells(a, b) == <<a, b>>

\* Sheet rows: a row that opens an order, continuation rows, a row that
\* opens an order with its second column only, a row with a customer and no
\* Parent SKU, a row with a note only, and a row with no quantity.
RowPool ==
    {SheetRow(<<" ", "b">>, <<"n">>, <<>>, "P1", Cells("2", "")),
     SheetRow(<<>>, <<"m">>, <<>>, "p1", Cells("2", "2")),
     SheetRow(<<"B">>, <<"m">>, <<"1", "/", "2", "/", "2", "6">>, "P1", Cells("", "2")),
     SheetRow(<<"A", ".", "b">>, <<>>, <<"a", "s", "a", "p">>, "", Cells("", "")),
     SheetRow(<<>>, <<"n">>, <<>>, "", Cells("2", "")),
     SheetRow(<<>>, <<>>, <<>>, "P1", Cells("", ""))}

OrderFiles ==
    {[decodable |-> TRUE, columns |-> cs, rows |-> rs] :
        cs \in ColumnSets, rs \in SeqsUpTo(RowPool, MaxSheetRows)}
    \cup {[decodable |-> FALSE, columns |-> <<>>, rows |-> <<>>]}

InitMain ==
    /\ order_file \in OrderFiles
    /\ aux_files \in [master : BOOLEAN, contacts : BOOLEAN]
    /\ salesperson \in {"Jada Claiborne", "Unknown"}
    /\ (aux_files.master /\ aux_files.contacts) \/ salesperson = "Jada Claiborne"
    /\ aux_files.master \/ aux_files.contacts
    /\ order_df = <<>>
    /\ loop = <<>>
    /\ output_rows = <<>>
    /\ output_dir = [csv |-> "before", sidecar |-> "before", writes |-> 0]
    /\ p_pc = "start"
    /\ MasterIdle
    /\ OrderIdle
    /\ MatchIdle
    /\ DateIdle
    /\ RestIdle

orderRest == <<order_row, breakout_df, final_hits, enriched_items, o_pc>>
runInputs == <<order_file, aux_files, salesperson>>

\* Lines 108-109: read_csv_smart and preprocess_df.
ReadOrderSheet ==
    /\ p_pc = "start"
    /\ IF order_file.decodable
       THEN /\ order_df' = PreprocessDf(order_file)
            /\ p_pc' = "read"
            /\ UNCHANGED output_dir
       ELSE /\ p_pc' = "UnicodeDecodeError"
            /\ output_dir' = AfterException(output_dir, output_rows)
            /\ UNCHANGED order_df
    /\ UNCHANGED <<runInputs, loop, output_rows, catalog, size_cols, orderRest,
                   masterVars, matchVars, dateVars, restVars>>

\* Lines 112-113: build_master_with_ext_id and align_master_with_dupecheck.
BuildMaster ==
    /\ p_pc = "read"
    /\ \E res \in {AlignMasterWithDupecheck(MainMasterFile)} :
          IF ~aux_files.master
          THEN /\ p_pc' = "UnicodeDecodeError"
               /\ output_dir' = AfterException(output_dir, output_rows)
               /\ UNCHANGED catalog
          ELSE IF res.status = "RuntimeError"
          THEN /\ p_pc' = "RuntimeError"
               /\ output_dir' = AfterException(output_dir, output_rows)
               /\ UNCHANGED catalog
          ELSE /\ catalog' = Range(res.rows)
               /\ p_pc' = "master"
               /\ UNCHANGED output_dir
    /\ UNCHANGED <<runInputs, order_df, loop, output_rows, size_cols, orderRest,
                   masterVars, matchVars, dateVars, restVars>>

\* Lines 117-129: get_size_columns, then the start of the loop.
DetectSizeColumns ==
    /\ p_pc = "master"
    /\ \E res \in GetSizeColumns(order_df.columns, catalog) :
          IF res.status = "ValueError"
          THEN /\ p_pc' = "ValueError"
               /\ output_dir' = AfterException(output_dir, output_rows)
               /\ UNCHANGED <<size_cols, loop>>
          ELSE /\ size_cols' = res.size_cols
               /\ loop' = LoopStart
               /\ p_pc' = "loop"
               /\ UNCHANGED output_dir
    /\ UNCHANGED <<runInputs, order_df, output_rows, catalog, orderRest,
                   masterVars, matchVars, dateVars, restVars>>

\* Lines 131-198: one pass of the loop.
ProcessRow ==
    /\ p_pc = "loop"
    /\ loop.i < Len(order_df.rows)
    /\ \E row \in {order_df.rows[loop.i + 1]} :
       \E cleaned \in {CleanShipDate(StripName(row["Ship Date"]), MainClock, TRUE)} :
       \E enriched \in {EnrichWithMaster(
                            BreakoutMatrix([parent |-> row["Parent SKU"], qty |-> row["qty"]],
                                           size_cols),
                            catalog)} :
       \E res \in {ProcessOneRow(row, loop, output_rows, salesperson, cleaned, enriched)} :
          /\ loop' = res.st
          /\ output_rows' = res.rows
          /\ IF res.status = "KeyError"
             THEN /\ p_pc' = "KeyError"
                  /\ output_dir' = AfterException(output_dir, res.rows)
             ELSE UNCHANGED <<p_pc, output_dir>>
    /\ UNCHANGED <<runInputs, order_df, catalog, size_cols, orderRest,
                   masterVars, matchVars, dateVars, restVars>>

\* Lines 200-203: after the last row.
FinishLoop ==
    /\ p_pc = "loop"
    /\ loop.i = Len(order_df.rows)
    /\ output_rows' = FinalizeNotes(output_rows, loop.current_order_first_idx,
                                    loop.current_order_notes)
    /\ p_pc' = "looped"
    /\ UNCHANGED <<runInputs, order_df, loop, output_dir, catalog, size_cols, orderRest,
                   masterVars, matchVars, dateVars, restVars>>

\* Lines 221-258: match_all_customers and the final Rep Notes.
MatchCustomers ==
    /\ p_pc = "looped"
    /\ IF output_rows = <<>>
       THEN /\ p_pc' = "annotated"
            /\ UNCHANGED <<output_rows, output_dir>>
       ELSE IF ~aux_files.contacts
       THEN /\ p_pc' = "UnicodeDecodeError"
            /\ output_dir' = AfterException(output_dir, output_rows)
            /\ UNCHANGED output_rows
       ELSE /\ \E matches \in MatchAllCustomers(output_rows, MainContacts) :
                  output_rows' = [i \in DOMAIN output_rows |->
                                     AnnotateRow(output_rows[i], matches)]
            /\ p_pc' = "annotated"
            /\ UNCHANGED output_dir
    /\ UNCHANGED <<runInputs, order_df, loop, catalog, size_cols, orderRest,
                   masterVars, matchVars, dateVars, restVars>>

\* Lines 260-280: the output file, and the note on an unknown salesperson.
WriteOutput ==
    /\ p_pc = "annotated"
    /\ IF output_rows # <<>>
       THEN output_dir' = [csv |-> ToCsv(output_rows),
                           sidecar |-> IF salesperson = "Unknown" THEN "written"
                                       ELSE output_dir.sidecar,
                           writes |-> output_dir.writes + 1]
       ELSE UNCHANGED output_dir
    /\ p_pc' = "done"
    /\ UNCHANGED <<runInputs, order_df, loop, output_rows, catalog, size_cols, orderRest,
                   masterVars, matchVars, dateVars, restVars>>

NextMain ==
    \/ ReadOrderSheet
    \/ BuildMaster
    \/ DetectSizeColumns
    \/ ProcessRow
    \/ FinishLoop
    \/ MatchCustomers
    \/ WriteOutput

SpecMain == InitMain /\ [][NextMain]_vars

(***************************************************************************)
(* contact_matching.py: match_all_customers.                               *)
(***************************************************************************)
MaxListedContacts == 2
MaxNamedRows == 2

\* Lines 117 and 123-133: the counts per tier, by the word found in the label.
MatchStats(m) ==
    LET Count(tier) == Cardinality({n \in DOMAIN m : m[n].info.tier = tier})
    IN [exact |-> Count("Exact match"),
        normalized |-> Count("Normalized match"),
        contains |-> Count("Contains match"),
        partial |-> Count("Partial match"),
        none |-> Count("No match") + Count("No name")]

\* Lines 141-143: the names written in the warning, when it is written.
UnmatchedWarning(m, st) ==
    IF st.none > 0
    THEN [logged |-> TRUE, names |-> {n \in DOMAIN m : m[n].id = ""}]
    ELSE [logged |-> FALSE, names |-> {}]

\* Rows of contacts.csv: a name, the company flag and whether the ID cell is
\* filled.
ListedContactPool ==
    {<<<<"b">>, "True", TRUE>>, <<<<"b">>, "False", FALSE>>,
     <<<<"a", " ", "b">>, "True", TRUE>>, <<<<"a", " ", "b">>, "False", TRUE>>,
     <<<<"a", " ", "b">>, "True", FALSE>>, <<<<".">>, "False", TRUE>>,
     <<<<"b", " ", "b">>, "True", TRUE>>}

ListedContacts ==
    {[i \in DOMAIN cs |->
         LoadContact(IF cs[i][3] THEN ContactIds[i] ELSE "", cs[i][1], cs[i][2])] :
        cs \in SeqsUpTo(ListedContactPool, MaxListedContacts)}

\* The Name cells of the output rows: padded, in another case, only
\* punctuation, and blank (a row that is not the first of its order).
RowNamePool == {<<"b", " ">>, <<"B">>, <<".">>, <<>>}

InitAll ==
    /\ rows_in \in {[i \in DOMAIN ns |-> [c \in {"Name"} |-> ns[i]]] :
                       ns \in SeqsUpTo(RowNamePool, MaxNamedRows)}
    /\ contacts_file \in ListedContacts
    /\ all_matches = <<>>
    /\ stats = <<>>
    /\ warning = <<>>
    /\ a_pc = "start"
    /\ MasterIdle
    /\ OrderIdle
    /\ MatchIdle
    /\ DateIdle
    /\ MainIdle
    /\ SizeIdle
    /\ BuildIdle
    /\ FileIdle
    /\ ShopIdle

\* main, line 223: matches = match_all_customers(output_rows, CONTACTS_FILE)
MatchAll ==
    /\ a_pc = "start"
    /\ \E m \in MatchAllCustomers(rows_in, contacts_file) :
       \E st \in {MatchStats(m)} :
          /\ all_matches' = m
          /\ stats' = st
          /\ warning' = UnmatchedWarning(m, st)
    /\ a_pc' = "done"
    /\ UNCHANGED <<rows_in, contacts_file, masterVars, orderVars, matchVars, dateVars,
                   mainVars, sizeVars, buildVars, fileVars, shopVars>>

NextAll == MatchAll

SpecAll == InitAll /\ [][NextAll]_vars

(***************************************************************************)
(* order-transformation.py: infer_salesperson_from_filename.               *)
(***************************************************************************)
MaxTokenLen == 3

\* Lines 66-72, with the keys as sequences of characters.
SALES_REP_PREFIX ==
    (<<"J", "C">> :> "Jada Claiborne") @@ (<<"J", "C", "1">> :> "Janelle Clasby")
    @@ (<<"A", "K">> :> "Alyssa Kallal") @@ (<<"A", "G">> :> "Angela Gonzales")
    @@ (<<"C", "F">> :> "Christina Freberg")

\* s.split(sep)[0]: the text before the first sep, the whole of s without one.
SplitFirst(s, sep) ==
    LET at == {i \in DOMAIN s : s[i] = sep}
    IN IF at = {} THEN s
       ELSE SubSeq(s, 1, (CHOOSE i \in at : \A j \in at : i <= j) - 1)

\* Line 82: prefix = token[:2].upper()
TokenPrefix(token) ==
    UpperHeader(SubSeq(token, 1, IF Len(token) < 2 THEN Len(token) ELSE 2))

\* Lines 75-84.
InferSalespersonFromFilename(name) ==
    LET token == SplitFirst(SplitFirst(name, "."), "-")
        prefix == TokenPrefix(token)
    IN [rep |-> IF prefix \in DOMAIN SALES_REP_PREFIX THEN SALES_REP_PREFIX[prefix]
                ELSE "Unknown",
        prefix |-> prefix]

\* File names: a run of letters, digits and hyphens, then a sheet number and
\* the extension, or the extension alone.
NameAlphabet == {"J", "C", "1", "j", "c", "A", "K", "G", "-"}

FileNames ==
    {t \o ext : t \in SeqsUpTo(NameAlphabet, MaxTokenLen),
                ext \in {<<"-", "3", ".", "c", "s", "v">>, <<".", "c", "s", "v">>}}

InitFile ==
    /\ path_name \in FileNames
    /\ inferred = <<>>
    /\ f_pc = "start"
    /\ MasterIdle
    /\ OrderIdle
    /\ MatchIdle
    /\ DateIdle
    /\ MainIdle
    /\ SizeIdle
    /\ BuildIdle
    /\ AllIdle
    /\ ShopIdle

\* main, line 98: salesperson, prefix = infer_salesperson_from_filename(ORDER_SHEET_FILE)
Infer ==
    /\ f_pc = "start"
    /\ inferred' = InferSalespersonFromFilename(path_name)
    /\ f_pc' = "done"
    /\ UNCHANGED <<path_name, masterVars, orderVars, matchVars, dateVars, mainVars,
                   sizeVars, buildVars, allVars, shopVars>>

NextFile == Infer

SpecFile == InitFile /\ [][NextFile]_vars

(***************************************************************************)
(* connections/shopify: tags.py, badges.py and ShopifyClient.  The shop is *)
(* a function from product GIDs to [tagged, badge]; a mutation that the    *)
(* shop accepts changes the product it names.                              *)
(***************************************************************************)
MaxProducts == 2

Gid123 == "gid://shopify/Product/123"
Gid456 == "gid://shopify/Product/456"

\* tags.py lines 161-173, badges.py lines 164-176, on the ids the model draws:
\* the id stripped, with the GID prefix put in front of a bare id.
NormalizeId(pid) ==
    CASE pid = "123" -> Gid123
      [] pid = " 123 " -> Gid123
      [] pid = "456" -> Gid456
      [] OTHER -> pid

NormalizeIds(product_ids) == [i \in DOMAIN product_ids |-> NormalizeId(product_ids[i])]

\* What ShopifyClient.execute can come back with: a response without errors,
\* a response with userErrors, a response with top-level errors, an exception.
Responses == {"ok", "userErrors", "errors", "raise"}

\* A client whose mutate sends the mutation also on a dry run.
MutateAlways(dry_run, response) ==
    [sent |-> TRUE,
     raised |-> response \in {"errors", "raise"},
     user_errors |-> response = "userErrors",
     applied |-> response = "ok"]

\* ShopifyClient.mutate, lines 84-95 of __init__.py.
Mutate(dry_run, response) ==
    IF dry_run
    THEN [sent |-> FALSE, raised |-> FALSE, user_errors |-> FALSE, applied |-> FALSE]
    ELSE [sent |-> TRUE,
          raised |-> response \in {"errors", "raise"},
          user_errors |-> response = "userErrors",
          applied |-> response = "ok"]

\* The effect of an accepted mutation on the product it names.
Applied(shop, op, pid) ==
    IF pid \notin DOMAIN shop THEN shop
    ELSE [shop EXCEPT ![pid] =
             CASE op = "add_tags" -> [@ EXCEPT !.tagged = TRUE]
               [] op = "remove_tags" -> [@ EXCEPT !.tagged = FALSE]
               [] op = "update_badge" -> [@ EXCEPT !.badge = TRUE]
               [] op = "clear_badge" -> [@ EXCEPT !.badge = FALSE]]

\* The loop over the products (tags.py lines 73-97 and 127-151, badges.py
\* lines 69-105 and 124-154), with the response that execute gives for each.
ProductLoop(op, product_ids, dry_run, responses, shop) ==
    LET F[i \in 0..Len(product_ids)] ==
            IF i = 0
            THEN [results |-> [success |-> <<>>, failed |-> <<>>, errors |-> <<>>],
                  executed |-> <<>>,
                  shop |-> shop]
            ELSE LET product_id == product_ids[i]
                     m == Mutate(dry_run, responses[i])
                     was == F[i - 1]
                     sent == IF m.sent THEN Append(was.executed, <<op, product_id>>)
                             ELSE was.executed
                     after == IF m.applied THEN Applied(was.shop, op, product_id)
                              ELSE was.shop
                 IN IF ~m.raised /\ (dry_run \/ ~m.user_errors)
                    THEN [results |-> [was.results EXCEPT
                                          !.success = Append(@, product_id)],
                          executed |-> sent, shop |-> after]
                    ELSE [results |-> [was.results EXCEPT
                                          !.failed = Append(@, product_id),
                                          !.errors = Append(@, product_id)],
                          executed |-> sent, shop |-> after]
    IN F[Len(product_ids)]

\* Product ids as the callers write them: bare, padded and as GID.
ProductIdPool == {"123", " 123 ", Gid123, Gid456}

InitShop ==
    /\ env_set \in BOOLEAN
    /\ request \in [product_ids : SeqsUpTo(ProductIdPool, MaxProducts), dry_run : BOOLEAN]
    /\ remote \in [{Gid123, Gid456} -> [tagged : BOOLEAN, badge : BOOLEAN]]
    /\ remote_at_call = remote
    /\ executed = <<>>
    /\ results = <<>>
    /\ h_pc = "start"
    /\ MasterIdle
    /\ OrderIdle
    /\ MatchIdle
    /\ DateIdle
    /\ MainIdle
    /\ SizeIdle
    /\ BuildIdle
    /\ AllIdle
    /\ FileIdle

\* One call of a function of tags.py or badges.py: the ids are normalized,
\* get_client() raises ValueError without SHOP_URL or SHOP_TOKEN (lines 27-31
\* of __init__.py), then the loop runs.
Call(op) ==
    /\ h_pc = "start"
    /\ IF ~env_set
       THEN /\ h_pc' = "ValueError"
            /\ UNCHANGED <<remote, executed, results>>
       ELSE \E responses \in [DOMAIN request.product_ids -> Responses] :
            \E out \in {ProductLoop(op, NormalizeIds(request.product_ids),
                                    request.dry_run, responses, remote)} :
               /\ results' = out.results
               /\ executed' = out.executed
               /\ remote' = out.shop
               /\ h_pc' = "done"
    /\ UNCHANGED <<env_set, request, remote_at_call, masterVars, orderVars, matchVars,
                   dateVars, mainVars, sizeVars, buildVars, allVars, fileVars>>

add_tags == Call("add_tags")
remove_tags == Call("remove_tags")
update_badge == Call("update_badge")
clear_badge == Call("clear_badge")

NextShop == add_tags \/ remove_tags \/ update_badge \/ clear_badge

SpecShop == InitShop /\ [][NextShop]_vars

(***************************************************************************)
(* Claims on match_customer (specification SpecMatch).                     *)
(***************************************************************************)
Contacts == Range(contacts_df)

ExactHits == {r \in Contacts : r.Name = customer_name}

NormalizedHits == {r \in Contacts : r.normalized = NormalizeName(customer_name)}

ContainsHits == {r \in Contacts : Contains(r.normalized, NormalizeName(customer_name))}

ReverseHits == {r \in ContainsHits : r.normalized # <<>>}

IdsOf(hits) == {r.ID : r \in hits}

Position(r) == CHOOSE i \in DOMAIN contacts_df : contacts_df[i] = r

Companies(hits) == {r \in hits : r.is_company}

FirstOfHits(hits) == CHOOSE r \in hits : \A q \in hits : Position(r) <= Position(q)

Tier == match_result.info.tier

\* C7: the result is that of the first tier with a hit, in the order exact,
\* normalized, contains, reverse-contains; a contact whose raw name equals the
\* customer name wins over every normalized or containing contact.
C7_TierOrder ==
    c_pc = "done" =>
        /\ ExactHits # {} =>
              Tier = "Exact match" /\ match_result.id \in IdsOf(ExactHits)
        /\ (ExactHits = {} /\ NormalizedHits # {}) =>
              Tier = "Normalized match" /\ match_result.id \in IdsOf(NormalizedHits)
        /\ (ExactHits = {} /\ NormalizedHits = {} /\ ContainsHits # {}) =>
              Tier = "Contains match" /\ match_result.id \in IdsOf(ContainsHits)
        /\ (ExactHits = {} /\ NormalizedHits = {} /\ ContainsHits = {}
                /\ ReverseHits # {}) =>
              Tier = "Partial match" /\ match_result.id \in IdsOf(ReverseHits)
        /\ (ExactHits = {} /\ NormalizedHits = {} /\ ContainsHits = {}
                /\ ReverseHits = {}) =>
              Tier = "No match" /\ match_result.id = ""

\* An exact hit that comes after a contact matching only by normalization
\* and one matching only by containment.
C7_Witness ==
    /\ c_pc = "done"
    /\ Tier = "Exact match"
    /\ \E e \in ExactHits, n \in NormalizedHits \ ExactHits,
          c \in ContainsHits \ NormalizedHits :
            Position(n) < Position(e) /\ Position(c) < Position(e)

TierHits ==
    IF Tier = "Exact match" THEN ExactHits
    ELSE IF Tier = "Normalized match" THEN NormalizedHits
    ELSE {}

\* C8: at the exact and the normalized tier the result is a company hit when
\* there is one, else the first hit in file order.
C8_CompanyPreferred ==
    (c_pc = "done" /\ Tier \in {"Exact match", "Normalized match"}) =>
        IF Companies(TierHits) # {}
        THEN match_result.id \in IdsOf(Companies(TierHits))
        ELSE match_result.id = FirstOfHits(TierHits).ID

\* A normalized match on a company that follows a matching individual.
C8_Witness ==
    /\ c_pc = "done"
    /\ Tier = "Normalized match"
    /\ \E r \in Companies(NormalizedHits) :
          /\ match_result.id = r.ID
          /\ \E q \in NormalizedHits \ Companies(NormalizedHits) :
                Position(q) < Position(r)

Shortest(hits) == {r \in hits : \A q \in hits : Len(r.Name) <= Len(q.Name)}

\* C9: at the contains tier a single hit is returned whatever its type; of
\* several hits a company is preferred, of several companies one with the
\* shortest name; without a company hit the first hit is returned.
C9_ContainsTieBreak ==
    (c_pc = "done" /\ Tier = "Contains match") =>
        IF Cardinality(ContainsHits) = 1
        THEN match_result.id \in IdsOf(ContainsHits)
        ELSE IF Companies(ContainsHits) # {}
        THEN match_result.id \in IdsOf(Shortest(Companies(ContainsHits)))
        ELSE match_result.id = FirstOfHits(ContainsHits).ID

\* Several company hits of different lengths, the shortest not the first.
C9_Witness ==
    /\ c_pc = "done"
    /\ Tier = "Contains match"
    /\ \E r, q \in Companies(ContainsHits) :
          /\ match_result.id = r.ID
          /\ Position(q) < Position(r)
          /\ Len(r.Name) < Len(q.Name)


(***************************************************************************)
(* Claims on breakout_matrix and enrich_with_master (specification         *)
(* SpecOrder).                                                             *)
(***************************************************************************)
RowDone == o_pc \in {"done", "KeyError"}

InCatalog(parent, size) ==
    \E m \in catalog : m["SKU (Parent)"] = parent /\ m["Size Abbreviation"] = size

\* The size of the master row a (parent, size) record is to be enriched from:
\* its own, else SM for S, else LXL for L, else none.
ExpectedSize(parent, size) ==
    CASE InCatalog(parent, size) -> size
      [] size = "S" /\ InCatalog(parent, "SM") -> "SM"
      [] size = "L" /\ InCatalog(parent, "LXL") -> "LXL"
      [] OTHER -> "none"

CountIn(seq, Test(_)) == Cardinality({i \in DOMAIN seq : Test(seq[i])})

\* C3: every enriched record comes from its exact master row when that row
\* exists, else S from SM and L from LXL, and nothing else is enriched; every
\* record with such a row is enriched.
C3_OnlyTwoAliases ==
    o_pc = "done" =>
        /\ \A h \in Range(final_hits) :
              /\ ExpectedSize(h["SKU (Parent)"], h["Size Abbreviation"]) # "none"
              /\ h["SKU"] = <<h["SKU (Parent)"],
                             ExpectedSize(h["SKU (Parent)"], h["Size Abbreviation"])>>
        /\ \A r \in Range(breakout_df.rows) :
              LET SameRecord(x) == x = r
                  SameHit(h) == /\ h["SKU (Parent)"] = r.parent
                                /\ h["Size Abbreviation"] = r.size
                                /\ h["qty"] = r.qty
              IN CountIn(final_hits, SameHit) =
                    IF ExpectedSize(r.parent, r.size) = "none" THEN 0
                    ELSE CountIn(breakout_df.rows, SameRecord)

\* An L record enriched from the LXL row next to an SM record that is
\* dropped although the S row exists.
C3_Witness ==
    /\ o_pc = "done"
    /\ \E h \in Range(final_hits) :
          h["Size Abbreviation"] = "L" /\ h["SKU"] = <<"P1", "LXL">>
    /\ \E r \in Range(breakout_df.rows) :
          r.size = "SM" /\ ~InCatalog("P1", "SM") /\ InCatalog("P1", "S")

SumOver(n, F(_)) ==
    LET S[i \in 0..n] == IF i = 0 THEN 0 ELSE S[i - 1] + F(i)
    IN S[n]

ItemQty(i) == enriched_items[i].qty

CellOf(i) == order_row.qty[size_cols[i].col]

NonZeroNumber(cell) == ~ToNumeric(cell).nan /\ ToNumeric(cell).twice # 0

Matchable(i) ==
    NonZeroNumber(CellOf(i)) /\ ExpectedSize(order_row.parent, size_cols[i].size) # "none"

TwiceMatched(i) == IF Matchable(i) THEN ToNumeric(CellOf(i)).twice ELSE 0

TruncatedMatched(i) == IF Matchable(i) THEN IntOf(ToNumeric(CellOf(i)).twice) ELSE 0

\* C4 as stated: the emitted quantities of a row add up to the non-zero
\* numeric cells of its size columns, less those whose (parent, size) found no
\* master row exactly or through an alias.  (Both sides doubled.)
C4_QuantitySumExact ==
    RowDone =>
        2 * SumOver(Len(enriched_items), ItemQty) = SumOver(Len(size_cols), TwiceMatched)

\* C4 amended: the emitted quantities add up to the non-zero numeric cells
\* truncated toward zero to integers, less those that found no master row.
C4_QuantitySumTruncated ==
    RowDone =>
        SumOver(Len(enriched_items), ItemQty) = SumOver(Len(size_cols), TruncatedMatched)

\* A row with an enriched quantity, a dropped record and a negative cell that
\* is enriched.
C4_Witness ==
    /\ o_pc = "done"
    /\ Len(enriched_items) >= 1
    /\ Len(enriched_items) < Len(breakout_df.rows)
    /\ \E i \in DOMAIN size_cols : Matchable(i) /\ CellOf(i) = "-1"

\* C5: every breakout record has a quantity above zero.
C5_QuantityPositive ==
    o_pc \in {"broken", "done", "KeyError"} =>
        \A r \in Range(breakout_df.rows) : r.qty > 0

SurvivingCols == {i \in DOMAIN size_cols : NonZeroNumber(CellOf(i))}

\* C6: a row with a Parent SKU yields one record per size column whose cell
\* is a non-zero number; when there is none the row yields no line items and
\* processing goes on.
C6_EmptyRowDoesNotStop ==
    /\ (o_pc \in {"broken", "done", "KeyError"} /\ order_row.parent # "")
          => Len(breakout_df.rows) = Cardinality(SurvivingCols)
    /\ (RowDone /\ order_row.parent # "" /\ SurvivingCols = {})
          => (o_pc = "done" /\ enriched_items = <<>>)


(***************************************************************************)
(* Claims on align_master_with_dupecheck (specification SpecMaster).       *)
(***************************************************************************)
FilteredMaster == FilterMaster(master_df)

GroupOf(r) == {q \in Range(FilteredMaster) : KeyOf(q) = KeyOf(r)}

\* Three preference ranks: EXT_ID present, else UPC present, else neither.
Rank3(r) == IF HasExt(r) THEN 2 ELSE IF HasUpc(r) THEN 1 ELSE 0

\* Four preference ranks, ordered by (EXT_ID present, UPC present).
Rank4(r) == (IF HasExt(r) THEN 2 ELSE 0) + (IF HasUpc(r) THEN 1 ELSE 0)

UniqueKeys(m) == \A i, j \in DOMAIN m : i # j => KeyOf(m[i]) # KeyOf(m[j])

KeptFor(r) == {a \in Range(aligned) : KeyOf(a) = KeyOf(r)}

\* C1 as stated: one row is kept per key group, of the highest of the three
\* ranks EXT_ID > UPC > neither, and among rows of equal rank the earliest.
C1_KeepsEarliestOfBestRank3 ==
    m_pc = "done" =>
        /\ UniqueKeys(aligned)
        /\ \A r \in Range(FilteredMaster) :
              /\ Cardinality(KeptFor(r)) = 1
              /\ \A a \in KeptFor(r) :
                    /\ a \in GroupOf(r)
                    /\ \A q \in GroupOf(r) :
                          /\ Rank3(q) <= Rank3(a)
                          /\ Rank3(q) = Rank3(a) => a["idx"] <= q["idx"]

\* C1 amended: one row is kept per key group; it has the highest rank in the
\* order (EXT_ID and UPC) > (EXT_ID only) > (UPC only) > neither, and is the
\* earliest input row of that rank; the result never repeats a key.
C1_KeepsEarliestOfBestRank4 ==
    m_pc = "done" =>
        /\ UniqueKeys(aligned)
        /\ \A r \in Range(FilteredMaster) :
              /\ Cardinality(KeptFor(r)) = 1
              /\ \A a \in KeptFor(r) :
                    /\ a \in GroupOf(r)
                    /\ \A q \in GroupOf(r) :
                          /\ Rank4(q) <= Rank4(a)
                          /\ Rank4(q) = Rank4(a) => a["idx"] <= q["idx"]

\* A group of three rows where the kept row is neither the first nor the last.
C1_Witness ==
    /\ m_pc = "done"
    /\ \E a \in Range(aligned) :
          /\ Cardinality(GroupOf(a)) = 3
          /\ \E q1, q2 \in GroupOf(a) : q1["idx"] < a["idx"] /\ a["idx"] < q2["idx"]

HasDuplicateKeys(m) == ~UniqueKeys(m)

\* C2 as stated: duplicate keys among the filtered rows abort the run.
C2_AbortsOnDuplicateKeys ==
    (m_pc \in {"done", "RuntimeError"} /\ HasDuplicateKeys(FilteredMaster))
        => m_pc = "RuntimeError"

\* C2 amended: alignment never raises the integrity error; rows that repeat
\* a key after filtering are dropped silently, leaving one row per key.
C2_DuplicatesDroppedSilently ==
    m_pc \in {"done", "RuntimeError"} =>
        /\ m_pc = "done"
        /\ Len(aligned) = Cardinality({KeyOf(r) : r \in Range(FilteredMaster)})
        /\ Range(aligned) \subseteq Range(FilteredMaster)

C2_Witness ==
    /\ m_pc = "done"
    /\ HasDuplicateKeys(FilteredMaster)
    /\ Len(aligned) < Len(FilteredMaster)

\* The exclusion rules, on a row as given (before normalization).
Excluded(r) ==
    LET n == NormalizeRow(r)
    IN \/ \E c \in {"Season", "FAHO24 Status", "SPSU25 Status", "FAHO25 Status",
                    "SPSU26 Status"} : n[c] = "EXCLUSIVE"
       \/ n["Collection"] = "HAREM PANTS"
       \/ ContainsHIC(n["SKU"])
       \/ n["SKU (Parent)"] \in {"", "N/A", "#N/A", "NA", "NONE"}
       \/ n["Size Abbreviation"] \in {"", "N/A", "#N/A", "NA", "NONE"}

\* C19: the returned catalog holds no excluded row, and every key of a
\* non-excluded input row is kept with a non-excluded row: an excluded row
\* never displaces it.
C19_ExcludedRowsNeverKept ==
    m_pc = "done" =>
        /\ \A a \in Range(aligned) : ~Excluded(a) /\ ~Excluded(master_df[a["idx"]])
        /\ \A i \in DOMAIN master_df :
              ~Excluded(master_df[i]) =>
                  \E a \in Range(aligned) : KeyOf(a) = KeyOf(NormalizeRow(master_df[i]))

\* An excluded row with EXT_ID and UPC precedes a kept row of the same key
\* that has neither.
C19_Witness ==
    /\ m_pc = "done"
    /\ \E i, j \in DOMAIN master_df :
          /\ i < j
          /\ Excluded(master_df[i])
          /\ KeyOf(NormalizeRow(master_df[i])) = KeyOf(NormalizeRow(master_df[j]))
          /\ ~HasExt(master_df[j]) /\ ~HasUpc(master_df[j])
          /\ \E a \in Range(aligned) : a["idx"] = j

(***************************************************************************)
(* Claims on clean_ship_date (specification SpecShip).                     *)
(***************************************************************************)
Cleaned == s_pc \in {"cleaned", "done"}

\* What the input says, read on the cell as it was given.
Found == Search(raw_date)
GivenMonth == ToInt(Found.month)
GivenDay == ToInt(Found.day)
YearGiven == Found.year_str # <<>>

\* An instant as a number that grows with time.
Instant(y, m, d, tod) == ((y * 12 + m) * 31 + d) * 2 + tod

CurrentYearDatePassed ==
    Instant(now.year, GivenMonth, GivenDay, 0) < Instant(now.year, now.month, now.day, now.tod)

\* The year of the extracted date: the written one (two digits widened
\* around the pivot), else the current year or the next one.
ExtractedYear ==
    IF YearGiven THEN ExpandYear(ToInt(Found.year_str))
    ELSE IF Valid(now.year, GivenMonth, GivenDay) /\ CurrentYearDatePassed THEN now.year + 1
    ELSE now.year

TomorrowString == FormatDate(Tomorrow(now).year, Tomorrow(now).month, Tomorrow(now).day, pads_year)

MustDefault ==
    \/ raw_date = <<>>
    \/ UpperDate(raw_date) = <<"A", "S", "A", "P">>
    \/ ~Found.ok
    \/ ~Valid(ExtractedYear, GivenMonth, GivenDay)

\* C15: clean_ship_date returns tomorrow's date with defaulted = true exactly
\* when the input is empty, is ASAP in any letter case, holds no M/D pattern,
\* or the extracted (year, month, day) is no calendar date; otherwise it
\* returns the extracted date with defaulted = false.
C15_DefaultsExactlyWhen ==
    Cleaned =>
        IF MustDefault
        THEN ship_result = [date |-> TomorrowString, defaulted |-> TRUE]
        ELSE ship_result = [date |-> FormatDate(ExtractedYear, GivenMonth, GivenDay, pads_year),
                            defaulted |-> FALSE]

\* A date of the current year that has passed rolls into a year that has no
\* such day, and the cell is defaulted.
C15_Witness ==
    /\ Cleaned
    /\ Found.ok /\ ~YearGiven
    /\ Valid(now.year, GivenMonth, GivenDay)
    /\ ~Valid(ExtractedYear, GivenMonth, GivenDay)
    /\ ship_result.defaulted

IsMMDDYYYY(s) ==
    /\ Len(s) = 10
    /\ \A i \in {1, 2, 4, 5, 7, 8, 9, 10} : IsDigit(s[i])
    /\ s[3] = "/" /\ s[6] = "/"

\* C17: for every input, the returned date string has the form MM/DD/YYYY,
\* also for years written with 2, 3 or 4 digits.
C17_AlwaysMMDDYYYY == Cleaned => IsMMDDYYYY(ship_result.date)

\* C18: clean_ship_date applied to a date it returned gives the same date,
\* not defaulted.
C18_Idempotent ==
    s_pc = "done" => again_result = [date |-> ship_result.date, defaulted |-> FALSE]

\* The date cleaned again is a defaulted one, made of a clock reading on the
\* last day of a year.
C18_Witness ==
    /\ s_pc = "done"
    /\ ship_result.defaulted
    /\ now.month = 12 /\ now.day = 31
    /\ again_result.date = ship_result.date

(***************************************************************************)
(* Claims on main (specification SpecMain).                                *)
(***************************************************************************)
Assembled == p_pc \in {"looped", "annotated", "done"}
Annotated == p_pc \in {"annotated", "done"}

SourceRows == order_df.rows

\* An order is the run of sheet rows from a row with a customer up to the
\* next such row; it is named by the position of its first row.
Starts(i) == SourceRows[i]["Customer"] # <<>>
Orders == {i \in DOMAIN SourceRows : Starts(i)}
OrderOf(i) ==
    LET before == {j \in 1..i : Starts(j)}
    IN IF before = {} THEN 0 ELSE CHOOSE j \in before : \A k \in before : k <= j
RowsOfOrder(j) == {i \in DOMAIN SourceRows : OrderOf(i) = j}

\* The line items of a sheet row, and those of them that the master matches.
LineItems(i) ==
    BreakoutMatrix([parent |-> SourceRows[i]["Parent SKU"], qty |-> SourceRows[i]["qty"]],
                   size_cols)
MatchedItems(i) == EnrichWithMaster(LineItems(i), catalog).items

\* The output positions of the matched items of a sheet row and of an order.
EmittedBefore(i) ==
    LET F[k \in 0..Len(SourceRows)] ==
            IF k = 0 THEN 0 ELSE F[k - 1] + Len(MatchedItems(k))
    IN F[i - 1]
Positions(i) == (EmittedBefore(i) + 1)..(EmittedBefore(i) + Len(MatchedItems(i)))
OrderPositions(j) == UNION {Positions(i) : i \in RowsOfOrder(j)}
FirstPosition(j) == CHOOSE p \in OrderPositions(j) : \A q \in OrderPositions(j) : p <= q
EmittingOrders == {j \in Orders : OrderPositions(j) # {}}

\* The rows of the output: those of the file once it is written.
FinalRows == IF p_pc = "done" /\ output_dir.writes = 1 THEN output_dir.csv ELSE output_rows

BlankHeader(r) ==
    /\ r["Salesperson"] = "" /\ r["Sales Team"] = "" /\ r["Name"] = <<>>
    /\ r["Tags"] = "" /\ r["Rep Notes"] = <<>>

CarriesHeader(r, j) ==
    /\ r["Salesperson"] = salesperson /\ r["Sales Team"] = SALES_TEAM
    /\ r["Name"] = SourceRows[j]["Customer"] /\ r["Tags"] = TAG
    /\ Annotated => r["Rep Notes"] # <<>>

\* C11: in each order exactly the first emitted line item carries
\* Salesperson, Sales Team, Name, Tags and the notes, every later one has
\* them blank, and there are as many header rows as orders that emitted a
\* line item.
C11_HeaderOnFirstItemOnly ==
    Assembled =>
        /\ Len(FinalRows) = EmittedBefore(Len(SourceRows) + 1)
        /\ \A j \in Orders : \A p \in OrderPositions(j) :
              IF p = FirstPosition(j) THEN CarriesHeader(FinalRows[p], j)
              ELSE BlankHeader(FinalRows[p])
        /\ Cardinality({p \in DOMAIN FinalRows : ~BlankHeader(FinalRows[p])})
              = Cardinality(EmittingOrders)

\* The file is written with two orders in it, one of them of several rows.
C11_Witness ==
    /\ p_pc = "done" /\ output_dir.writes = 1
    /\ Cardinality(EmittingOrders) >= 2
    /\ \E j \in Orders : Cardinality(OrderPositions(j)) >= 2

\* The non-empty rep notes of the rows of an order, in sheet order.
NotesOf(j) ==
    LET F[k \in 0..Len(SourceRows)] ==
            IF k = 0 THEN <<>>
            ELSE IF OrderOf(k) = j /\ SourceRows[k]["Rep Notes"] # <<>>
                 THEN Append(F[k - 1], SourceRows[k]["Rep Notes"])
            ELSE F[k - 1]
    IN F[Len(SourceRows)]
CombinedNotes(j) == Join(Chars(" --- "), NotesOf(j))

EndsWith(s, t) == Len(t) <= Len(s) /\ SubSeq(s, Len(s) - Len(t) + 1, Len(s)) = t

SheetNotes == {SourceRows[i]["Rep Notes"] : i \in DOMAIN SourceRows} \ {<<>>}

\* C12: the rep notes on the header row of an order are the non-empty Rep
\* Notes of the rows of that order, in sheet order, joined by " --- ": none of
\* another order, and none of the order missing.  After the final pass they
\* are the last part of the Rep Notes field.
C12_NotesOfTheOrderJoined ==
    Assembled =>
        \A j \in EmittingOrders :
            LET notes == FinalRows[FirstPosition(j)]["Rep Notes"]
            IN IF p_pc = "looped" THEN notes = CombinedNotes(j)
               ELSE IF NotesOf(j) # <<>> THEN EndsWith(notes, Chars(" | ") \o CombinedNotes(j))
               ELSE \A n \in SheetNotes : ~EndsWith(notes, <<" ">> \o n)

\* An order with notes on two of its rows is followed by an order with a
\* note of its own, and both are in the written file.
C12_Witness ==
    /\ p_pc = "done" /\ output_dir.writes = 1
    /\ \E j, k \in EmittingOrders :
          j < k /\ Len(NotesOf(j)) >= 2 /\ NotesOf(j)[1] # NotesOf(j)[2] /\ NotesOf(k) # <<>>

\* An order has line items, none of which the master matches.
NoneMatched(j) ==
    /\ \E i \in RowsOfOrder(j) : LineItems(i).rows # <<>>
    /\ \A i \in RowsOfOrder(j) : MatchedItems(i) = <<>>

\* C13: an order none of whose line items matches the master contributes no
\* output row, and the run goes on with the next orders: it does not end in
\* a row of such an order, and the header rows of the output are those of
\* the other orders, each with its own name and notes.
C13_UnmatchedOrderSkipped ==
    /\ p_pc = "KeyError" => ~NoneMatched(OrderOf(loop.i))
    /\ p_pc = "looped" =>
          \A j \in Orders :
              IF NoneMatched(j) THEN OrderPositions(j) = {}
              ELSE OrderPositions(j) # {} =>
                      /\ output_rows[FirstPosition(j)]["Name"] = SourceRows[j]["Customer"]
                      /\ output_rows[FirstPosition(j)]["Rep Notes"] = CombinedNotes(j)

\* C14: the output file is written at most once, after every row has been
\* processed and every customer matched; a run that fails, or has not come to
\* its end, has not touched the file.
C14_WrittenOnceAtTheEnd ==
    p_pc # "idle" =>
        /\ output_dir.writes <= 1
        /\ p_pc # "done" => output_dir = [csv |-> "before", sidecar |-> "before", writes |-> 0]
        /\ output_dir.writes = 1 =>
              /\ loop.i = Len(SourceRows)
              /\ output_dir.csv = ToCsv(output_rows)
              /\ \A r \in Range(output_rows) : "ID" \in DOMAIN r
        /\ output_dir.writes = 0 => output_dir.csv = "before"

\* The run fails in a sheet row after rows have been assembled.
C14_Witness ==
    /\ p_pc = "KeyError"
    /\ output_rows # <<>>
    /\ output_dir.csv = "before"

\* No header of the order sheet has a known size among its tokens.
NoSizeColumn ==
    \A i \in DOMAIN order_df.columns :
        \A size \in SizeSet(catalog) :
            Chars(size) \notin Range(Split(ColClean(order_df.columns[i])))

\* C20: when no column of the order sheet matches a known size,
\* get_size_columns raises, and the run stops with no row processed and
\* nothing written; the mapping it returns is never empty.
C20_NoSizeColumnsStopsRun ==
    /\ loop # <<>> => size_cols # <<>> /\ ~NoSizeColumn
    /\ p_pc = "ValueError" =>
          /\ NoSizeColumn
          /\ loop = <<>> /\ output_rows = <<>>
          /\ output_dir = [csv |-> "before", sidecar |-> "before", writes |-> 0]
    /\ (catalog # {} /\ NoSizeColumn) => p_pc \in {"master", "ValueError"}

C20_Witness == p_pc = "ValueError" /\ NoSizeColumn /\ order_df.rows # <<>>

(***************************************************************************)
(* Claims about get_size_columns (SpecSizes).                              *)
(***************************************************************************)
Detected == g_pc \in {"called", "done"}

\* The sizes the call knows: the upper-cased Size Abbreviations, and OSFM.
KnownSizes == {Upper(r["Size Abbreviation"]) : r \in sheet_master} \cup {"OSFM"}

\* The upper-cased header without "QTY" and with a space for every slash.
Reduced(header) == SlashToSpace(RemoveQty(UpperHeader(header)))

\* x fills the header from one whitespace (or end) to the next.
IsToken(x, header) ==
    /\ x # <<>>
    /\ \A k \in DOMAIN x : ~IsSpace(x[k])
    /\ \E i \in DOMAIN header :
          /\ i + Len(x) - 1 <= Len(header)
          /\ SubSeq(header, i, i + Len(x) - 1) = x
          /\ i = 1 \/ IsSpace(header[i - 1])
          /\ i + Len(x) - 1 = Len(header) \/ IsSpace(header[i + Len(x)])

TokenSizes(header) == {x \in KnownSizes : IsToken(Chars(x), Reduced(header))}

MappedColumns(call) == {e.col : e \in Range(call.size_cols)}

\* C21: a column is mapped to X only if X is a known size and an exact
\* whitespace-delimited token of its reduced header; every column whose
\* header has such a token is mapped, and no other column is.
C21_MappedIffExactToken ==
    Detected =>
       /\ \A e \in Range(first_call.size_cols) : e.size \in TokenSizes(sheet_columns[e.col])
       /\ \A i \in DOMAIN sheet_columns :
             i \in MappedColumns(first_call) <=> TokenSizes(sheet_columns[i]) # {}

\* C21: a sheet with a mapped column, a column whose header holds a known
\* size only inside a longer token, and that column left out.
C21_Witness ==
    /\ Detected
    /\ first_call.size_cols # <<>>
    /\ \E i \in DOMAIN sheet_columns :
          /\ i \notin MappedColumns(first_call)
          /\ \E x \in KnownSizes :
                Chars(x) # <<>> /\ Contains(Reduced(sheet_columns[i]), Chars(x))

\* C28: two calls on the same headers and the same master return the same
\* mapping, and the mapping has at most one size for a column.
C28_SameMappingEveryRun ==
    g_pc = "done" =>
       /\ first_call = second_call
       /\ \A e, f \in Range(first_call.size_cols) : e.col = f.col => e.size = f.size

(***************************************************************************)
(* Claims about build_master_with_ext_id (SpecBuild).                      *)
(***************************************************************************)
\* The variant rows whose trimmed, upper-cased Internal Reference is sku.
VariantsOf(sku) ==
    {j \in DOMAIN variant_file : Upper(Strip(variant_file[j]["Internal Reference"])) = sku}

IdOf(j) == Strip(variant_file[j]["ID"])

VariantsWithId(sku) == {j \in VariantsOf(sku) : IdOf(j) # ""}

Earliest(S) == CHOOSE j \in S : \A k \in S : j <= k

ExpectedExtId(sku) ==
    IF VariantsOf(sku) = {} THEN ""
    ELSE IF VariantsWithId(sku) # {} THEN IdOf(Earliest(VariantsWithId(sku)))
    ELSE IdOf(Earliest(VariantsOf(sku)))

\* C22: every master row gets the ID of the first variant row of its SKU
\* that has an ID, of the first variant row of its SKU if none has one, and
\* an empty EXT_ID if no variant row has its SKU; no row is lost.
C22_ExtIdOfFirstVariantWithId ==
    b_pc = "done" =>
       /\ Len(built) = Len(master_sku_file)
       /\ \A i \in DOMAIN built :
             /\ built[i]["SKU"] = Upper(Strip(master_sku_file[i]["SKU"]))
             /\ built[i]["EXT_ID"] = ExpectedExtId(built[i]["SKU"])

\* C22: a SKU whose first variant row has no ID and a later one has, next to
\* a SKU without a variant row.
C22_Witness ==
    /\ b_pc = "done"
    /\ \E i, k \in DOMAIN built :
          /\ VariantsWithId(built[i]["SKU"]) # {}
          /\ Earliest(VariantsOf(built[i]["SKU"])) \notin VariantsWithId(built[i]["SKU"])
          /\ built[i]["EXT_ID"] # ""
          /\ VariantsOf(built[k]["SKU"]) = {}
          /\ built[k]["EXT_ID"] = ""

(***************************************************************************)
(* Claims about the final pass of main (SpecMain).                         *)
(***************************************************************************)
\* 'SHIP DATE: <date>' with the cleaned ship date of the order.
ShipAnnotation(j) ==
    Chars("SHIP DATE: ")
    \o CleanShipDate(StripName(SourceRows[j]["Ship Date"]), MainClock, TRUE).date

\* The customer-match annotation of a name for an outcome of the matching.
MatchAnnotation(name, outcome) ==
    IF outcome.id # ""
    THEN Chars("CUSTOMER MATCH: (") \o name \o Chars(" --> ") \o Chars(outcome.id)
         \o Chars(") ") \o MatchType(outcome.info)
    ELSE Chars("CUSTOMER MATCH: (") \o name \o Chars(") No match")

ComposedNotes(j, name, outcome) ==
    ShipAnnotation(j) \o Chars(" | ") \o MatchAnnotation(name, outcome)
    \o (IF NotesOf(j) # <<>> THEN Chars(" | ") \o CombinedNotes(j) ELSE <<>>)

\* C23: the Rep Notes of a header row are the ship-date annotation, the
\* customer-match annotation (with the id and tier of the match, or 'No
\* match') and the combined notes of the order if it has any, in this order
\* and joined by ' | '; a row without a name has an empty ID and no notes.
C23_NotesComposedInOrder ==
    (Annotated /\ output_rows # <<>>) =>
       \A p \in DOMAIN FinalRows :
          LET r == FinalRows[p]
          IN IF r["Name"] # <<>>
             THEN \E j \in EmittingOrders :
                     /\ p = FirstPosition(j)
                     /\ \E outcome \in MatchCustomer(r["Name"], MainContacts) :
                           /\ r["ID"] = outcome.id
                           /\ r["Rep Notes"] = ComposedNotes(j, r["Name"], outcome)
             ELSE r["ID"] = "" /\ r["Rep Notes"] = <<>>

\* C23: the written file has a matched order with notes, an order without
\* match, and a row without a name.
C23_Witness ==
    /\ p_pc = "done" /\ output_dir.writes = 1
    /\ \E p, q, b \in DOMAIN FinalRows :
          /\ FinalRows[p]["ID"] # "" /\ FinalRows[p]["Name"] # <<>>
          /\ \E j \in EmittingOrders : p = FirstPosition(j) /\ NotesOf(j) # <<>>
          /\ FinalRows[q]["ID"] = "" /\ FinalRows[q]["Name"] # <<>>
          /\ FinalRows[b]["Name"] = <<>>

\* C25: every output row without header fields comes after a row that
\* carries the header of its order; the first output row carries a
\* customer name.
C25_BlankRowsFollowTheirHeader ==
    (Assembled /\ FinalRows # <<>>) =>
       /\ FinalRows[1]["Name"] # <<>>
       /\ \A p \in DOMAIN FinalRows :
             FinalRows[p]["Name"] = <<>> =>
                \E j \in EmittingOrders : FirstPosition(j) < p /\ p \in OrderPositions(j)

(***************************************************************************)
(* Claims about match_all_customers (SpecAll).                             *)
(***************************************************************************)
Listed == Range(contacts_file)

\* The contacts that the test of tier 3 and the test of tier 4 select.
Tier3Selects(name) == {r \in Listed : Contains(r.normalized, NormalizeName(name))}
Tier4Selects(name) ==
    {r \in Listed : r.normalized # <<>> /\ Contains(r.normalized, NormalizeName(name))}

MatchedNames == IF a_pc = "done" THEN DOMAIN all_matches ELSE {}

NeverPartial ==
    /\ \A n \in MatchedNames : all_matches[n].info.tier # "Partial match"
    /\ a_pc = "done" => stats.partial = 0

\* C26: no name is resolved at the reverse-contains tier and the partial
\* count is 0: for a name that reaches tier 3, the tier-3 test and the tier-4
\* test select the same contacts.
C26_NeverPartial ==
    /\ NeverPartial
    /\ \A n \in MatchedNames :
          all_matches[n].info.tier \in {"Contains match", "Partial match", "No match"}
             => Tier3Selects(n) = Tier4Selects(n)

\* C26: a name that neither the exact nor the normalized tier resolves and
\* that the tier-4 test finds in several contacts.
C26_Witness ==
    /\ a_pc = "done"
    /\ \E n \in MatchedNames :
          /\ Cardinality(Tier4Selects(n)) >= 2
          /\ all_matches[n].info.tier = "Contains match"

\* C27: an empty id comes only with 'No match' or 'No name'; the names
\* counted as unmatched are those with an empty id, and the warning lists
\* every one of them.
C27_EmptyIdOnlyWithoutMatch ==
    a_pc = "done" =>
       LET empty == {n \in DOMAIN all_matches : all_matches[n].id = ""}
       IN /\ \A n \in empty : all_matches[n].info.tier \in {"No match", "No name"}
          /\ stats.none = Cardinality(empty)
          /\ empty # {} => warning.logged /\ empty \subseteq warning.names

(***************************************************************************)
(* A further claim about clean_ship_date (SpecShip).                       *)
(***************************************************************************)
GivenDayBeforeToday ==
    GivenMonth < now.month \/ (GivenMonth = now.month /\ GivenDay < now.day)

\* C29: a month/day without year that is valid in the current year comes
\* back as its earliest occurrence not before today's date: in the current
\* year when it is today's or a later day, in the next year when earlier.
C29_EarliestOccurrenceFromToday ==
    (Cleaned /\ Found.ok /\ ~YearGiven /\ Valid(now.year, GivenMonth, GivenDay)) =>
        ship_result =
            [date |-> FormatDate(IF GivenDayBeforeToday THEN now.year + 1 ELSE now.year,
                                 GivenMonth, GivenDay, pads_year),
             defaulted |-> FALSE]

(***************************************************************************)
(* Claim about infer_salesperson_from_filename (SpecFile).                 *)
(***************************************************************************)
\* The text of the file name before its first '-' or '.'.
LeadingToken ==
    LET stops == {i \in DOMAIN path_name : path_name[i] \in {"-", "."}}
    IN IF stops = {} THEN path_name
       ELSE SubSeq(path_name, 1, (CHOOSE i \in stops : \A j \in stops : i <= j) - 1)

\* C30: a file name whose leading token is, ignoring case, a key of
\* SALES_REP_PREFIX gives the salesperson of that key, any other token gives
\* 'Unknown'; so 'JC1-3.csv' gives the rep of key 'JC1'.
C30_RepOfTheWholeToken ==
    f_pc = "done" =>
       IF UpperHeader(LeadingToken) \in DOMAIN SALES_REP_PREFIX
       THEN inferred.rep = SALES_REP_PREFIX[UpperHeader(LeadingToken)]
       ELSE inferred.rep = "Unknown"

(***************************************************************************)
(* Claim about the dry runs of tags.py and badges.py (SpecShop).           *)
(***************************************************************************)
Ended == h_pc \in {"done", "ValueError"}

NothingSent == executed = <<>> /\ remote = remote_at_call

AllReportedAsSuccess ==
    /\ h_pc = "done"
    /\ results = [success |-> NormalizeIds(request.product_ids), failed |-> <<>>,
                  errors |-> <<>>]

\* C24 as stated: a call with dry_run = True sends no mutation, leaves the
\* shop as it was and reports every input product in 'success', with
\* 'failed' and 'errors' empty.
C24_DryRunReportsAll ==
    (Ended /\ request.dry_run) => NothingSent /\ AllReportedAsSuccess

\* C24 as amended: a call with dry_run = True sends no mutation and leaves
\* the shop as it was; when SHOP_URL and SHOP_TOKEN are set it reports every
\* input product in 'success', with 'failed' and 'errors' empty, and without
\* them it raises ValueError and reports nothing.
C24_DryRunReportsAllWithCredentials ==
    (Ended /\ request.dry_run) =>
       /\ NothingSent
       /\ IF env_set THEN AllReportedAsSuccess
          ELSE h_pc = "ValueError" /\ results = <<>>

\* C24: a dry run over two products, one of them written as a bare id, on a
\* shop that the same call without dry_run could have changed.
C24_Witness ==
    /\ h_pc = "done" /\ request.dry_run
    /\ Len(request.product_ids) = 2
    /\ \E i \in DOMAIN request.product_ids :
          request.product_ids[i] # NormalizeId(request.product_ids[i])
    /\ Len(results.success) = 2

====
